---- MODULE Spec2Model ----
(***************************************************************************)
(* A model of the Redux store engine (src/src/createStore.js): the state   *)
(* cell, the reducer, the listener lists with their copy-on-write          *)
(* discipline, the isDispatching guard, and the JavaScript call stack of   *)
(* dispatch calls that reducers and listeners re-enter.                    *)
(***************************************************************************)
EXTENDS Integers, Sequences, FiniteSets, TLC

(***************************************************************************)
(* Bounds of the model.                                                    *)
(***************************************************************************)
\* nesting depth of dispatch calls (a listener dispatching from a listener)
MaxDepth == 2
\* store calls one callback invocation (reducer or listener) may make
MaxCalls == 2
\* subscribe calls over the life of the store
MaxHandles == 2
\* subscribe calls over the life of a store whose callbacks call nothing
MaxRegs == 3
\* dispatch calls the store accepts over its life
MaxDispatches == 2
\* the counter state is an integer modulo StateMod
StateMod == 3
\* subscribe calls over the life of a store whose reducer is replaced
MaxReplaceSubs == 1
\* entries of a reducer mapping given to combineReducers
MaxKeys == 2
\* middlewares given to applyMiddleware
MaxMiddlewares == 3
\* functions given to compose
MaxFuncs == 3
\* arguments given to a composed function
MaxArgs == 2
\* listeners subscribed to a store built with applyMiddleware
MaxSubscribers == 2
\* invocations of one combined reducer whose warnings are recorded
MaxInvocations == 3

(***************************************************************************)
(* JavaScript values.                                                      *)
(***************************************************************************)
\* the value undefined, where a state (an integer) is expected
Undefined == -1
\* the value undefined, where an action type (a string) is expected
UndefinedType == "<undefined>"
\* the null reference, where an array reference is expected
Null == 0

\* src/unnamed/part_000: the private action types
INIT == "@@redux/INIT"
REPLACE == "@@redux/REPLACE"

\* Prototype objects and their own prototype ("null" ends the chain).
Prototypes == {"Object.prototype", "Foo.prototype", "Bar.prototype"}

protoOf == [p \in Prototypes |->
              IF p = "Bar.prototype" THEN "Foo.prototype"
              ELSE IF p = "Foo.prototype" THEN "Object.prototype" ELSE "null"]

\* A value handed to dispatch: what typeof says of it, its immediate
\* prototype, its type property and the reference it is.
Value(kind, proto, type, ref) ==
  [kind |-> kind, proto |-> proto, type |-> type, ref |-> ref]

PlainAction(type, ref) == Value("object", "Object.prototype", type, ref)

NoAction == Value("undefined", "null", UndefinedType, 0)

\* typeof v (typeof null is "object")
TypeOf(v) == IF v.kind = "null" THEN "object" ELSE v.kind

\* typeof of a type property
TypeOfType(t) == IF t = UndefinedType THEN "undefined" ELSE "string"

\* the last non-null object of the chain that starts at prototype p
RECURSIVE ChainEnd(_)
ChainEnd(p) == IF protoOf[p] = "null" THEN p ELSE ChainEnd(protoOf[p])

isPlainObject(obj) ==
  IF TypeOf(obj) # "object" \/ obj.kind = "null"
    THEN FALSE
    ELSE \* proto = obj; while (getPrototypeOf(proto) !== null) ...
         IF obj.proto = "null"
           THEN FALSE   \* the loop leaves proto = obj, and null # obj
           ELSE obj.proto = ChainEnd(obj.proto)

\* the values the callers of the model dispatch
GoodActions ==
  {PlainAction("inc", 1), PlainAction("dbl", 1), PlainAction("boom", 1)}

BadActions ==
  {PlainAction(UndefinedType, 1),
   Value("object", "Foo.prototype", "inc", 1),
   Value("null", "null", UndefinedType, 1)}

Dispatchables == GoodActions \cup BadActions

\* listener callbacks, and a value that is not callable
Callbacks == {"f", "g"}
NotCallable == "notAFunction"

(***************************************************************************)
(* Reducers the store is built with.  A reducer returns a value or throws. *)
(***************************************************************************)
Reducers == {"counter", "stepper"}

Returned(v) == [threw |-> FALSE, value |-> v]
Threw == [threw |-> TRUE, value |-> Undefined]

\* (state = 0, action): "inc" adds one, "dbl" doubles, "boom" throws
counter(state, action) ==
  LET s == IF state = Undefined THEN 0 ELSE state IN
  CASE action.type = "inc" -> Returned((s + 1) % StateMod)
    [] action.type = "dbl" -> Returned((2 * s) % StateMod)
    [] action.type = "boom" -> Threw
    [] OTHER -> Returned(s)

\* (state = 1, action): "inc" adds two, "dbl" keeps, "boom" throws
stepper(state, action) ==
  LET s == IF state = Undefined THEN 1 ELSE state IN
  CASE action.type = "inc" -> Returned((s + 2) % StateMod)
    [] action.type = "boom" -> Threw
    [] OTHER -> Returned(s)

Reducer(r, state, action) ==
  IF r = "counter" THEN counter(state, action) ELSE stepper(state, action)

(***************************************************************************)
(* Sequences as JavaScript arrays.                                         *)
(***************************************************************************)
\* Array.prototype.indexOf, 1-based, 0 when absent (JavaScript's -1)
RECURSIVE IndexFrom(_, _, _)
IndexFrom(arr, x, i) ==
  IF i > Len(arr) THEN 0
  ELSE IF arr[i] = x THEN i ELSE IndexFrom(arr, x, i + 1)

IndexOf(arr, x) == IndexFrom(arr, x, 1)

\* arr.splice(index, 0): nothing is removed
SpliceNothing(arr, index) == arr

\* arr.splice(index, 1); an index of -1 (0 here) counts from the end
Splice(arr, index) ==
  LET at == IF index = 0 THEN Len(arr) ELSE index IN
  IF at = 0 THEN arr
  ELSE SubSeq(arr, 1, at - 1) \o SubSeq(arr, at + 1, Len(arr))

Count(arr, x) == Cardinality({i \in 1..Len(arr) : arr[i] = x})

(***************************************************************************)
(* The state of one store.                                                 *)
(***************************************************************************)
VARIABLES
  reducer0,         \* the reducer createStore was called with
  created,          \* createStore has returned the store
  currentReducer,   \* let currentReducer
  currentState,     \* let currentState
  heap,             \* the listener arrays, by reference
  currentListeners, \* let currentListeners (a reference, or Null)
  nextListeners,    \* let nextListeners (a reference)
  isDispatching,    \* let isDispatching
  handles,          \* the unsubscribe closures, in the order of subscribe
  stack,            \* the dispatch calls in progress, innermost last
  result,           \* what the store call that just ended gave its caller
  dispatches,       \* the number of actions dispatch has accepted
  folded            \* reducer0 folded over the accepted actions

\* The combined reducer and the store built on it.
VARIABLES
  root,             \* the reducer combineReducers returned last
  cstore,           \* the store created with a combined reducer
  ccall             \* the latest call of a combined reducer or of that store

engineVars == <<reducer0, created, currentReducer, currentState, heap,
                currentListeners, nextListeners, isDispatching, handles, stack,
                result, dispatches, folded>>

combinedVars == <<root, cstore, ccall>>

\* The store applyMiddleware builds.
VARIABLES
  mstore,           \* the enhanced store, its dispatch and its state
  mcall             \* the latest call of applyMiddleware or of that dispatch

middlewareVars == <<mstore, mcall>>

\* One call of isPlainObject.
VARIABLES
  plain             \* its argument, its local proto and its position

plainVars == <<plain>>

\* One use of compose.
VARIABLES
  pipe              \* the functions given, the function returned, its call

composeVars == <<pipe>>

\* One call of createStore, up to the construction of the store.
VARIABLES
  construction      \* its arguments and its outcome

argumentVars == <<construction>>

\* The observer given to the subscribe of the store's observable.
VARIABLES
  observer,         \* the latest argument of that subscribe
  nexts             \* the arguments of the calls of observer.next, in order

observerVars == <<observer, nexts>>

\* The warnings of one combined reducer in a non-production build.
VARIABLES
  unexpectedKeyCache,  \* the own properties of the closure's cache object
  warnings,            \* the messages handed to warning(), in order
  wcall                \* the latest invocation and what it did

warningVars == <<unexpectedKeyCache, warnings, wcall>>

\* the other parts of the model
outsideStore ==
  <<combinedVars, middlewareVars, plainVars, composeVars, argumentVars,
    warningVars>>

\* what the actions of the store engine leave alone
outsideEngine == <<outsideStore, observerVars>>

\* what the actions of the combined reducers leave alone
outsideCombined ==
  <<engineVars, middlewareVars, plainVars, composeVars, argumentVars,
    observerVars, warningVars>>

\* what the actions of applyMiddleware leave alone
outsideMiddleware ==
  <<engineVars, combinedVars, plainVars, composeVars, argumentVars,
    observerVars, warningVars>>

\* what the actions of isPlainObject leave alone
outsidePlain ==
  <<engineVars, combinedVars, middlewareVars, composeVars, argumentVars,
    observerVars, warningVars>>

\* what the actions of compose leave alone
outsideCompose ==
  <<engineVars, combinedVars, middlewareVars, plainVars, argumentVars,
    observerVars, warningVars>>

\* what a call of createStore leaves alone until it constructs the store
outsideArguments ==
  <<engineVars, combinedVars, middlewareVars, plainVars, composeVars,
    observerVars, warningVars>>

\* what the warnings of a combined reducer leave alone
outsideWarnings ==
  <<engineVars, cstore, ccall, middlewareVars, plainVars, composeVars,
    argumentVars, observerVars>>

vars == <<engineVars, combinedVars, middlewareVars, plainVars, composeVars,
          argumentVars, observerVars, warningVars>>

listenerVars == <<heap, currentListeners, nextListeners>>

\* references of listener arrays
ArrIds == 1..(MaxDepth + 2)

PreloadedStates == {Undefined, 1}

\* the errors of the store
ConfigurationError == "ConfigurationError"
TypeError == "TypeError"
InvariantViolation == "InvariantViolation"
ReducerError == "ReducerError"
ListenerError == "ListenerError"

\* the outcome of a store call: "ok" and the value returned, or the error
Call(op, status, ret, state) ==
  [op |-> op, status |-> status, ret |-> ret, state |-> state]

\* no store call has just ended
NoResult == Call("none", "ok", NoAction, Undefined)

\* the fold is not followed any further: the reducer threw or was replaced
Unfolded == Undefined - 1

\* the fold of reducer0, one action further
FoldStep(acc, action) ==
  IF acc = Unfolded THEN Unfolded
  ELSE LET res == Reducer(reducer0, acc, action) IN
       IF res.threw THEN Unfolded ELSE res.value

Top == stack[Len(stack)]
AtTopLevel == stack = <<>>
InListener == stack # <<>> /\ Top.pc = "listener"
InReducer == stack # <<>> /\ Top.pc = "reducer"
Notifying(F) == F.pc \in {"notify", "listener"}

\* the code that is running may call the store
CanCall ==
  /\ created
  /\ result = NoResult
  /\ \/ AtTopLevel
     \/ (InListener \/ InReducer) /\ Top.calls < MaxCalls

\* the running callback has made one more call
Bump(stk) ==
  IF stk = <<>> THEN stk ELSE [stk EXCEPT ![Len(stk)].calls = @ + 1]

\* the arrays that are still referenced
Live(stk, nl, cl) ==
  ({nl, cl} \cup {stk[k].listeners : k \in 1..Len(stk)}) \ {Null}

\* unreferenced arrays are collected
Collect(h, live) == [a \in ArrIds |-> IF a \in live THEN h[a] ELSE <<>>]

\* a new array
Fresh(live) == CHOOSE a \in ArrIds : a \notin live /\ \A b \in ArrIds \ live : a <= b

ActiveHandles == {h \in 1..Len(handles) : handles[h].isSubscribed}

(***************************************************************************)
(* combineReducers (src/src/combineReducers.js).                           *)
(***************************************************************************)
\* src/unnamed/part_000: the type of the probe action
PROBE_UNKNOWN_ACTION == "@@redux/PROBE_UNKNOWN_ACTION"

\* the keys of reducer mappings and of state objects
Keys == {"a", "b", "c"}

\* the values of a slice of the state
Slices == 0..(StateMod - 1)

\* (state = 0, action): "dbl" falls through without a return
forgetful(state, action) ==
  LET s == IF state = Undefined THEN 0 ELSE state IN
  IF action.type = "dbl" THEN Returned(Undefined) ELSE Returned(s)

\* (state, action): no default state, every action returns state
noInit(state, action) == Returned(state)

\* (state, action): the default state is returned for INIT only
noProbe(state, action) ==
  IF action.type = INIT /\ state = Undefined THEN Returned(0) ELSE Returned(state)

SubReducers == Reducers \cup {"forgetful", "noInit", "noProbe"}

\* the call reducer(state, action) of a sub-reducer
SubReducer(r, state, action) ==
  CASE r \in Reducers -> Reducer(r, state, action)
    [] r = "forgetful" -> forgetful(state, action)
    [] r = "noInit" -> noInit(state, action)
    [] OTHER -> noProbe(state, action)

\* An object: the reference it is and its own properties.  The reference
\* 0 with no property stands for undefined.
Obj(ref, val) == [ref |-> ref, val |-> val]

NoProps == [k \in {} |-> Undefined]

UndefinedState == Obj(0, NoProps)

\* state[key]
Get(obj, key) == IF key \in DOMAIN obj.val THEN obj.val[key] ELSE Undefined

\* nextState[key] = value
Put(val, key, value) ==
  [k \in DOMAIN val \cup {key} |-> IF k = key THEN value ELSE val[k]]

\* a reference no live object has
FreshRef(live) == CHOOSE r \in 1..(Cardinality(live) + 1) :
                    r \notin live /\ \A q \in 1..(Cardinality(live) + 1) \ live : r <= q

\* the errors of a combined reducer, with the key they name
ShapeError == "ShapeError"
StateError == "StateError"

Error(name, key) == [name |-> name, key |-> key]

NoError == Error("none", "")

\* assertReducerShape(reducers): the error thrown for the first reducer, in
\* key order, that fails the INIT call or the probe call
RECURSIVE assertReducerShape(_, _)
assertReducerShape(reducers, i) ==
  IF i > Len(reducers) THEN NoError
  ELSE LET key == reducers[i][1]
           reducer == reducers[i][2]
           initialState == SubReducer(reducer, Undefined, PlainAction(INIT, 0))
           probed == SubReducer(reducer, Undefined,
                                PlainAction(PROBE_UNKNOWN_ACTION, 0))
       IN IF initialState.threw THEN Error(ReducerError, "")
          ELSE IF initialState.value = Undefined THEN Error(ShapeError, key)
          ELSE IF probed.threw THEN Error(ReducerError, "")
          ELSE IF probed.value = Undefined THEN Error(ShapeError, key)
          ELSE assertReducerShape(reducers, i + 1)

\* a combineReducers that lets the error of assertReducerShape pass
combineReducersThrows(error) == error

\* try { assertReducerShape(finalReducers) } catch (e) { shapeAssertionError = e }
combineReducersCatch(error) == NoError

\* combineReducers(reducers): the closure of the function it returns, and
\* the error it throws
combineReducers(reducers) ==
  LET finalReducers == SelectSeq(reducers, LAMBDA e : e[2] \in SubReducers)
      e == assertReducerShape(finalReducers, 1)
  IN [finalReducers |-> finalReducers,
      shapeAssertionError |-> e,
      thrown |-> combineReducersCatch(e)]

\* a loop that hands a sub-reducer the slice built so far
previousStateFromNext(state, nextState, key) == Get(Obj(0, nextState), key)

\* const previousStateForKey = state[key]
previousStateForKey(state, nextState, key) == Get(state, key)

\* a loop that takes every result for a change
hasChangedAlways(hasChanged, nextStateForKey, previous) == TRUE

\* hasChanged = hasChanged || nextStateForKey !== previousStateForKey
hasChangedOr(hasChanged, nextStateForKey, previous) ==
  hasChanged \/ nextStateForKey # previous

\* a loop that stores undefined like any other result
undefinedAccepted(nextStateForKey) == FALSE

\* typeof nextStateForKey === 'undefined'
isUndefined(nextStateForKey) == nextStateForKey = Undefined

\* one pass of the loop of combination from index i
RECURSIVE combinationLoop(_, _, _, _, _)
combinationLoop(finalReducers, state, action, i, acc) ==
  IF i > Len(finalReducers) THEN acc
  ELSE LET key == finalReducers[i][1]
           reducer == finalReducers[i][2]
           previous == previousStateForKey(state, acc.nextState, key)
           res == SubReducer(reducer, previous, action)
           called == Append(acc.calls, <<key, reducer, previous, action>>)
       IN IF res.threw
            THEN [acc EXCEPT !.calls = called, !.error = Error(ReducerError, "")]
          ELSE IF isUndefined(res.value)
            THEN [acc EXCEPT !.calls = called, !.error = Error(StateError, key)]
          ELSE combinationLoop(finalReducers, state, action, i + 1,
                 [acc EXCEPT !.calls = called,
                             !.nextState = Put(@, key, res.value),
                             !.hasChanged = hasChangedOr(@, res.value, previous)])

\* combination(state = {}, action) of the closure c.  The outcome: the
\* error thrown or NoError, the value returned, the calls of sub-reducers
\* made
combination(c, state, action) ==
  LET given == IF state = UndefinedState THEN Obj(FreshRef({}), NoProps)
                                         ELSE state
      start == [calls |-> <<>>, error |-> NoError, nextState |-> NoProps,
                hasChanged |-> FALSE]
      end == combinationLoop(c.finalReducers, given, action, 1, start)
  IN IF c.shapeAssertionError # NoError
       THEN [error |-> c.shapeAssertionError, value |-> UndefinedState,
             calls |-> <<>>]
     ELSE IF end.error # NoError
       THEN [error |-> end.error, value |-> UndefinedState, calls |-> end.calls]
     ELSE [error |-> NoError,
           value |-> IF end.hasChanged
                       THEN Obj(FreshRef({given.ref}), end.nextState)
                       ELSE given,
           calls |-> end.calls]

(***************************************************************************)
(* The warnings of a combined reducer (src/src/combineReducers.js, the     *)
(* branches of process.env.NODE_ENV !== 'production').                     *)
(***************************************************************************)
\* the property names every object inherits from Object.prototype
ObjectPrototypeNames == {"toString"}

\* the state a combined reducer is handed: what typeof says of it, its
\* immediate prototype and the names of its own properties
InputState(kind, proto, keys) ==
  [kind |-> kind, proto |-> proto, type |-> UndefinedType, ref |-> 1,
   keys |-> keys]

\* state = {}
DefaultState == InputState("object", "Object.prototype", {})

\* a message for warning(): which one, and the keys it names
Warning(name, keys) == [name |-> name, keys |-> keys]
NoWarning == Warning("none", {})

\* a cache that remembers nothing
cachedNever(cache, key) == FALSE

\* unexpectedKeyCache[key], read as a condition: cache is the set of the
\* own properties of the cache object {}
cached(cache, key) == key \in cache \/ key \in ObjectPrototypeNames

\* getUnexpectedStateShapeWarningMessage(inputState, reducers, action,
\* unexpectedKeyCache): the message returned and the cache it leaves
getUnexpectedStateShapeWarningMessage(inputState, reducers, action, cache) ==
  LET reducerKeys == {reducers[i][1] : i \in 1..Len(reducers)}
      unexpectedKeys == {key \in inputState.keys :
                           key \notin reducerKeys /\ ~cached(cache, key)}
  IN IF reducerKeys = {}
       THEN [message |-> Warning("NoValidReducer", {}), cache |-> cache]
     ELSE IF ~isPlainObject(inputState)
       THEN [message |-> Warning("UnexpectedType", {}), cache |-> cache]
     ELSE [message |-> IF action.type # REPLACE /\ unexpectedKeys # {}
                         THEN Warning("UnexpectedKeys", unexpectedKeys)
                         ELSE NoWarning,
           cache |-> cache \cup unexpectedKeys]

(***************************************************************************)
(* compose (src/src/utils/isPlainObject.js) and applyMiddleware             *)
(* (src/src/applyMiddleware.js).  A function is the record of what it is   *)
(* and of what its closure holds.                                          *)
(***************************************************************************)
\* arg => arg
Identity == [fn |-> "identity"]

\* a composition the other way round: (...args) => b(a(...args))
CompFlipped(a, b) == [fn |-> "comp", a |-> b, b |-> a]

\* (...args) => a(b(...args))
Comp(a, b) == [fn |-> "comp", a |-> a, b |-> b]

\* middleware(middlewareAPI) of the i-th middleware: next => action => ...
ChainFn(i) == [fn |-> "chain", mw |-> i]

\* the function action => ... of the i-th middleware, with its next
Handler(i, next) == [fn |-> "handler", mw |-> i, next |-> next]

\* the dispatch of the store createStore returned
StoreDispatch == [fn |-> "store.dispatch"]

\* let dispatch = () => { throw new Error(...) }
Placeholder == [fn |-> "placeholder"]

\* f(x) for the functions compose is given and the functions it builds
RECURSIVE Apply(_, _)
Apply(f, x) ==
  CASE f.fn = "identity" -> x
    [] f.fn = "comp" -> Apply(f.a, Apply(f.b, x))
    [] OTHER -> Handler(f.mw, x)

\* funcs.reduce((a, b) => (...args) => a(b(...args))) from index i
RECURSIVE reduce(_, _, _)
reduce(funcs, i, a) ==
  IF i > Len(funcs) THEN a ELSE reduce(funcs, i + 1, Comp(a, funcs[i]))

compose(funcs) ==
  IF Len(funcs) = 0 THEN Identity
  ELSE IF Len(funcs) = 1 THEN funcs[1]
  ELSE reduce(funcs, 2, funcs[1])

(***************************************************************************)
(* The arguments of createStore (src/src/createStore.js, lines 31 to 69).  *)
(***************************************************************************)
\* an argument: what typeof says of it, the function or the number it is
Arg(t, fn, n) == [t |-> t, fn |-> fn, n |-> n]

ArgUndefined == Arg("undefined", "", Undefined)

ArgNumber(n) == Arg("number", "", n)

ArgFunction(fn) == Arg("function", fn, Undefined)

\* Enhancers: "wrap" calls the createStore it is given with the reducer and
\* the state it is given and returns that store with its tag; "lift" does
\* the same with a reducer of its own that wraps the one it is given;
\* "stub" calls nothing and returns an object of its own.
Enhancers == {"wrap", "lift", "stub"}

\* what a call has done: an enhancer was called with (reducer,
\* preloadedState), or createStore constructed a store and sent it INIT
Event(ev, fn, reducer, preloadedState) ==
  [ev |-> ev, fn |-> fn, reducer |-> reducer, preloadedState |-> preloadedState]

\* a store: its reducer, the state given, the enhancers that returned it
Store(reducer, preloadedState, by) ==
  [reducer |-> reducer, preloadedState |-> preloadedState, by |-> by]

NoStoreMade == Store(ArgUndefined, ArgUndefined, <<>>)

\* the outcome of a call of createStore or of an enhancer
Outcome(status, store, log) == [status |-> status, store |-> store, log |-> log]

Failed(error) == Outcome(error, NoStoreMade, <<>>)

\* the condition of the first if of createStore
severalEnhancers(preloadedState, enhancer, arg3) ==
  \/ preloadedState.t = "function" /\ enhancer.t = "function"
  \/ enhancer.t = "function" /\ arg3.t = "function"

\* a createStore that never takes its second argument for the enhancer
neverShifted(preloadedState, enhancer) == FALSE

\* typeof preloadedState === 'function' && typeof enhancer === 'undefined'
shifted(preloadedState, enhancer) ==
  preloadedState.t = "function" /\ enhancer.t = "undefined"

\* a createStore that accepts any reducer
reducerUnchecked(reducer) == FALSE

\* typeof reducer !== 'function'
reducerRefused(reducer) == reducer.t # "function"

\* createStore(reducer, preloadedState, enhancer, arg3) and
\* enhancer(createStore)(reducer, preloadedState)
RECURSIVE createStoreCall(_, _, _, _)
RECURSIVE callEnhancer(_, _, _)
callEnhancer(enhancer, reducer, preloadedState) ==
  LET called == Event("enhancer", enhancer.fn, reducer, preloadedState)
      given == IF enhancer.fn = "lift" THEN ArgFunction("lifted") ELSE reducer
      inner == createStoreCall(given, preloadedState, ArgUndefined, ArgUndefined)
  IN IF enhancer.fn = "stub"
       THEN Outcome("ok", Store(ArgFunction("stub"), ArgUndefined, <<"stub">>),
                    <<called>>)
       ELSE Outcome(inner.status,
                    IF inner.status = "ok"
                      THEN [inner.store EXCEPT !.by = Append(@, enhancer.fn)]
                      ELSE NoStoreMade,
                    <<called>> \o inner.log)

createStoreCall(reducer, preloadedState, enhancer, arg3) ==
  IF severalEnhancers(preloadedState, enhancer, arg3)
    THEN Failed(ConfigurationError)
    ELSE LET shift == shifted(preloadedState, enhancer)
             enhancer2 == IF shift THEN preloadedState ELSE enhancer
             preloadedState2 == IF shift THEN ArgUndefined ELSE preloadedState
         IN IF enhancer2.t # "undefined"
              THEN IF enhancer2.t # "function"
                     THEN Failed(ConfigurationError)
                     ELSE callEnhancer(enhancer2, reducer, preloadedState2)
              ELSE IF reducerRefused(reducer)
                     THEN Failed(ConfigurationError)
                     ELSE Outcome("ok", Store(reducer, preloadedState2, <<>>),
                            <<Event("createStore", "", reducer, preloadedState2)>>)

\* createStore has not been called
NoneMade == [op |-> "none", reducer |-> ArgUndefined,
             preloadedState |-> ArgUndefined, enhancer |-> ArgUndefined,
             arg3 |-> ArgUndefined, out |-> Failed("none")]

\* Functions on numbers to compose: succ and twice use their first
\* argument, add adds up all of its arguments.  ref tells apart two
\* functions that do the same.
Prim(name, ref) == [fn |-> "prim", name |-> name, ref |-> ref]

Prims == {Prim(name, ref) : name \in {"succ", "twice", "add"}, ref \in 1..2}

Numbers == 0..4

RECURSIVE Sum(_)
Sum(args) == IF args = <<>> THEN 0 ELSE Head(args) + Sum(Tail(args))

\* the value of a function of Prims
PrimValue(f, args) ==
  CASE f.name = "succ" -> (args[1] + 1) % 5
    [] f.name = "twice" -> (2 * args[1]) % 5
    [] OTHER -> Sum(args) % 5

\* the call f(...args) of a function compose was given or has built; r
\* holds the arguments and the calls made so far, and the result is the
\* value returned, as the one argument of the next call, with the calls
RECURSIVE callFn(_, _)
callFn(f, r) ==
  CASE f.fn = "identity" -> [r EXCEPT !.args = <<r.args[1]>>]
    [] f.fn = "comp" -> callFn(f.a, callFn(f.b, r))
    [] OTHER -> [args |-> <<PrimValue(f, r.args)>>,
                 calls |-> Append(r.calls, <<f, r.args>>)]

\* nothing has been composed
NoPipe == [op |-> "none", funcs |-> <<>>, composed |-> Identity,
           args |-> <<0>>, out |-> [args |-> <<0>>, calls |-> <<>>]]

\* What a middleware does.  Every handler logs its tag and calls next with
\* the action.  "again" first calls middlewareAPI.dispatch with an "inc"
\* action when it is given a "ping" action.  The factories of "eager" and
\* "eagerCaught" call middlewareAPI.dispatch themselves; the second one
\* catches the error of that call.  "drop" logs its tag and does not call
\* next; "twice" logs its tag and calls next two times.
Middlewares == {"pass", "again", "eager", "eagerCaught"}

MiddlewareLists == UNION {[1..n -> Middlewares] : n \in 0..MaxMiddlewares}

\* the actions given to the dispatch of the enhanced store
MiddlewareActions ==
  {PlainAction("inc", 1), PlainAction("dbl", 1), PlainAction("ping", 1)}

\* the action a middleware dispatches by itself
Again == PlainAction("inc", 2)

\* a log entry: the handler (0 is store.dispatch) and the action it got
Entry(i, action) == <<i, action>>

\* the run of a call: the log, the state of the store, the error thrown;
\* the reducer and the listeners of the store and the listeners invoked,
\* each with the state it could read
Run(log, state, error) ==
  [log |-> log, state |-> state, error |-> error,
   reducer |-> "counter", listeners |-> <<>>, seen |-> <<>>]

\* the loop of store.dispatch over its listeners, which call nothing
notify(listeners, state) ==
  [k \in 1..Len(listeners) |-> <<listeners[k], state>>]

\* a middlewareAPI.dispatch bound to the function dispatch held when the
\* middlewareAPI was built
apiDispatchByValue(dispatch) == Placeholder

\* dispatch: (...args) => dispatch(...args)
apiDispatch(dispatch) == dispatch

\* the call f(action) during the run r; dispatch is the function the
\* variable dispatch of applyMiddleware holds
RECURSIVE Invoke(_, _, _, _, _)
Invoke(f, action, r, dispatch, middlewares) ==
  IF r.error # "ok" THEN r
  ELSE CASE f.fn = "placeholder" -> [r EXCEPT !.error = ConfigurationError]
         [] f.fn = "store.dispatch" ->
              LET res == Reducer(r.reducer, r.state, action) IN
              IF res.threw THEN [r EXCEPT !.error = ReducerError]
              ELSE [r EXCEPT !.log = Append(@, Entry(0, action)),
                             !.state = res.value,
                             !.seen = @ \o notify(r.listeners, res.value)]
         [] OTHER ->
              LET entered == [r EXCEPT !.log = Append(@, Entry(f.mw, action))]
                  before ==
                    IF middlewares[f.mw] = "again" /\ action.type = "ping"
                      THEN Invoke(apiDispatch(dispatch), Again, entered,
                                  dispatch, middlewares)
                      ELSE entered
                  once == Invoke(f.next, action, before, dispatch, middlewares)
              IN CASE middlewares[f.mw] = "drop" -> before
                   [] middlewares[f.mw] = "twice" ->
                        Invoke(f.next, action, once, dispatch, middlewares)
                   [] OTHER -> once

\* a placeholder that is the dispatch of the store
placeholderIsStoreDispatch == StoreDispatch

\* the dispatch applyMiddleware defines before it calls the factories
placeholder == Placeholder

\* chain = middlewares.map(middleware => middleware(middlewareAPI)) from
\* index i: the run of the calls the factories make, the calls they made
\* and the index of the factory that threw (0 when none did)
RECURSIVE mapFactories(_, _, _)
mapFactories(middlewares, i, acc) ==
  IF i > Len(middlewares) THEN acc
  ELSE IF middlewares[i] \in {"eager", "eagerCaught"}
    THEN LET r == Invoke(placeholder, Again, acc.run, placeholder, middlewares)
             made == Append(acc.made, [by |-> i, error |-> r.error])
         IN IF middlewares[i] = "eager" /\ r.error # "ok"
              THEN [acc EXCEPT !.made = made, !.threw = i, !.run = r]
              ELSE mapFactories(middlewares, i + 1,
                     [acc EXCEPT !.made = made, !.run = [r EXCEPT !.error = "ok"]])
    ELSE mapFactories(middlewares, i + 1, acc)

\* the functions of the store createStore returns
BaseStore ==
  [dispatch |-> StoreDispatch, getState |-> "store.getState",
   subscribe |-> "store.subscribe", replaceReducer |-> "store.replaceReducer"]

\* { dispatch, ...store }: the dispatch of the store comes last
spreadStoreLast(store, dispatch) == store

\* { ...store, dispatch }
spread(store, dispatch) == [store EXCEPT !.dispatch = dispatch]

\* a store that makes its own dispatches through the dispatch it exposes
innerDispatchExposed(dispatch) == dispatch

\* the dispatch createStore calls with INIT and replaceReducer with
\* REPLACE: the function createStore defines, whatever dispatch the
\* enhanced store exposes
innerDispatch(dispatch) == StoreDispatch

\* applyMiddleware(...middlewares)(createStore)(counter, preloadedState)
applyMiddleware(middlewares, preloadedState) ==
  LET store == Invoke(innerDispatch(placeholder), PlainAction(INIT, 0),
                      Run(<<>>, preloadedState, "ok"), placeholder, middlewares)
      init == store.state
      setup == mapFactories(middlewares, 1,
                 [run |-> Run(<<>>, init, "ok"), made |-> <<>>, threw |-> 0])
      chain == [i \in 1..Len(middlewares) |-> ChainFn(i)]
      returned == spread(BaseStore, Apply(compose(chain), StoreDispatch))
  IN [built |-> setup.threw = 0,
      middlewares |-> middlewares,
      dispatch |-> IF setup.threw = 0 THEN returned.dispatch ELSE placeholder,
      getState |-> returned.getState,
      subscribe |-> returned.subscribe,
      replaceReducer |-> returned.replaceReducer,
      reducer |-> "counter",
      listeners |-> <<>>,
      state |-> setup.run.state,
      preloadedState |-> preloadedState,
      made |-> setup.made,
      construction |-> store.log,
      log |-> setup.run.log,
      error |-> IF setup.threw = 0 THEN "ok" ELSE setup.run.error]

\* no store has been built
NoMStore == [built |-> FALSE, middlewares |-> <<>>, dispatch |-> Placeholder,
             getState |-> "", subscribe |-> "", replaceReducer |-> "",
             reducer |-> "counter", listeners |-> <<>>,
             state |-> Undefined, preloadedState |-> Undefined, made |-> <<>>,
             construction |-> <<>>, log |-> <<>>, error |-> "ok"]

\* a call: the function called, the action given, the log of the handlers
\* it ran and its error; the state before the call, the listeners invoked
\* and the value returned
MCall(op, action, log, error) ==
  [op |-> op, action |-> action, log |-> log, error |-> error,
   before |-> Undefined, seen |-> <<>>, value |-> Undefined]

NoMCall == MCall("none", NoAction, <<>>, "ok")

\* the entries of a mapping: a key and a function, or a value that is none
Entries == Keys \X (SubReducers \cup {NotCallable})

\* the mappings of at most n entries, in the order of their keys
MappingsOf(entries, n) ==
  {m \in UNION {[1..k -> entries] : k \in 0..n} :
     \A i, j \in 1..Len(m) : i # j => m[i][1] # m[j][1]}

Mappings == MappingsOf(Entries, MaxKeys)

\* the state objects a caller hands over, and undefined
StateObjects ==
  {Obj(1, val) : val \in UNION {[ks -> Slices] : ks \in SUBSET Keys}}

States == StateObjects \cup {UndefinedState}

\* the actions a combined reducer is called with
CombinedActions == GoodActions \cup {PlainAction(INIT, 0), PlainAction(REPLACE, 0)}

\* no combined reducer has been built
NoRoot == [built |-> FALSE, c |-> combineReducers(<<>>)]

\* no store has been created
NoStore == [created |-> FALSE, currentReducer |-> NoRoot.c,
            currentState |-> UndefinedState]

\* a call: the function called, the reducer and the state before it, the
\* state and the action given, and its outcome
CCall(op, before, state, action, out) ==
  [op |-> op, before |-> before, state |-> state, action |-> action,
   error |-> out.error, value |-> out.value, calls |-> out.calls]

NoOutcome == [error |-> NoError, value |-> UndefinedState, calls |-> <<>>]

NoCall == CCall("none", NoRoot.c, UndefinedState, NoAction, NoOutcome)

\* no invocation of the combined reducer has been made
NoWCall == [n |-> 0, state |-> DefaultState, action |-> NoAction,
            message |-> NoWarning, earlier |-> {}, present |-> {},
            error |-> NoError]

\* the argument proto holds before the loop: the object itself
Self == "obj"

\* no call of isPlainObject is in progress
NoPlain == [pc |-> "idle", obj |-> NoAction, proto |-> Self, ret |-> FALSE]

\* What is given to the subscribe of the observable: what typeof says of
\* it ("null" stands for null) and whether it has a next method.
Observer(kind, next) == [kind |-> kind, next |-> next]

NoObserver == Observer("undefined", FALSE)

Observers ==
  {Observer("object", TRUE), Observer("object", FALSE), Observer("null", FALSE),
   Observer("number", FALSE), Observer("function", TRUE)}

\* function observeState of the observable's subscribe, as a listener
observeState == "observeState"

Init ==
  /\ unexpectedKeyCache = {}
  /\ warnings = <<>>
  /\ wcall = NoWCall
  /\ observer = NoObserver
  /\ nexts = <<>>
  /\ construction = NoneMade
  /\ pipe = NoPipe
  /\ plain = NoPlain
  /\ mstore = NoMStore
  /\ mcall = NoMCall
  /\ root = NoRoot
  /\ cstore = NoStore
  /\ ccall = NoCall
  /\ reducer0 = NotCallable
  /\ created = FALSE
  /\ currentReducer = NotCallable
  /\ currentState = Undefined
  /\ heap = [a \in ArrIds |-> <<>>]
  /\ currentListeners = Null
  /\ nextListeners = Null
  /\ isDispatching = FALSE
  /\ handles = <<>>
  /\ stack = <<>>
  /\ result = NoResult
  /\ dispatches = 0
  /\ folded = Undefined

(***************************************************************************)
(* dispatch: its checks, its reducer call and its notification pass.       *)
(***************************************************************************)
\* one dispatch call in progress.  action, via, reducer, pc, listeners, i
\* and calls are the call's locals; the rest records what the call has done
NewFrame(action, via, reducer) ==
  [action |-> action,          \* the parameter
   via |-> via,                \* the function that made the call
   reducer |-> reducer,        \* the reducer the call invoked
   pc |-> "reducer",           \* "reducer", "notify" or "listener"
   listeners |-> Null,         \* const listeners
   i |-> 0,                    \* listeners called so far
   calls |-> 0,                \* store calls of the running callback
   log |-> <<>>,               \* the callbacks invoked, in order
   snap |-> <<>>,              \* the array as it was snapshotted
   active |-> {},              \* the registrations active at the snapshot
   snapLen |-> 0,              \* the subscribe calls before the snapshot
   startActive |-> ActiveHandles, \* those active when the call began
   inv |-> {},                 \* <<callback, state>> of every invocation
   tainted |-> FALSE]          \* a listener threw during the call

\* a store call fails: the error goes to the caller
Fails(op, err) ==
  /\ result' = Call(op, err, NoAction, Undefined)
  /\ stack' = Bump(stack)

\* the checks of dispatch without the check of action.type
DispatchCheckWithoutType(action) ==
  IF ~isPlainObject(action) THEN ConfigurationError
  ELSE IF isDispatching THEN InvariantViolation
  ELSE "ok"

\* the three checks of dispatch, in order
DispatchCheck(action) ==
  IF ~isPlainObject(action) THEN ConfigurationError
  ELSE IF TypeOfType(action.type) = "undefined" THEN ConfigurationError
  ELSE IF isDispatching THEN InvariantViolation
  ELSE "ok"

\* dispatch(action) up to the call of the reducer
dispatch(action, via, reducer) ==
  LET check == DispatchCheck(action) IN
  IF check # "ok"
    THEN /\ Fails(via, check)
         /\ UNCHANGED <<isDispatching, dispatches>>
    ELSE /\ Len(stack) < MaxDepth
         /\ dispatches <= MaxDispatches
         /\ isDispatching' = TRUE
         /\ stack' = Append(Bump(stack), NewFrame(action, via, reducer))
         /\ dispatches' = dispatches + 1
         /\ UNCHANGED result

\* a dispatch that hands the reducer no state
callReducerWithoutState(reducer, state, action) ==
  Reducer(reducer, Undefined, action)

\* currentReducer(currentState, action)
callReducer(reducer, state, action) == Reducer(reducer, state, action)

\* a dispatch that notifies the committed list when there is one
snapshotCommitted(nl, cl) == IF cl # Null THEN cl ELSE nl

\* const listeners = (currentListeners = nextListeners)
snapshot(nl, cl) == nl

\* a dispatch that takes the snapshot before it calls the reducer
snapshotBeforeReducer(nl, cl) == nl

\* the reducer threw: the error leaves dispatch through finally, and the
\* assignment currentListeners = nextListeners is not reached
listenersAfterThrow(nl, cl) == cl

\* a dispatch without the finally block: an error skips the reset
dispatchWithoutFinally(threw) == threw

\* the finally block of dispatch
dispatchFinally(threw) == FALSE

\* a dispatch that returns a copy of the action
dispatchReturnsCopy(action) == [action EXCEPT !.ref = 0]

\* return action
dispatchReturnValue(action) == action

\* the call on top of the stack ends with an error: a reducer's error
\* passes the finally block (and ends the fold), a listener's error leaves
\* the loop
Unwind(err) ==
  LET F == Top
      rest == SubSeq(stack, 1, Len(stack) - 1)
      outer == IF F.pc = "listener"
                 THEN [k \in 1..Len(rest) |-> [rest[k] EXCEPT !.tainted = TRUE]]
                 ELSE rest
  IN /\ stack' = outer
     /\ isDispatching' = IF F.pc = "reducer" THEN dispatchFinally(TRUE)
                                             ELSE isDispatching
     /\ result' = Call(F.via, err, NoAction, Undefined)
     /\ heap' = Collect(heap, Live(outer, nextListeners, currentListeners))
     /\ folded' = IF F.pc = "reducer" THEN Unfolded ELSE folded

\* createStore(reducer, preloadedState): the variables, then dispatch(INIT)
createStore(reducer, preloadedState) ==
  /\ ~created
  /\ reducer0 = NotCallable
  /\ reducer # NotCallable
  /\ reducer0' = reducer
  /\ currentReducer' = reducer
  /\ currentState' = preloadedState
  /\ currentListeners' = 1
  /\ nextListeners' = 1
  /\ heap' = [a \in ArrIds |-> <<>>]
  /\ dispatch(PlainAction(INIT, 0), "createStore", reducer)
  /\ LET res == Reducer(reducer, preloadedState, PlainAction(INIT, 0)) IN
     folded' = IF res.threw THEN Unfolded ELSE res.value
  /\ UNCHANGED <<created, handles>>
  /\ UNCHANGED outsideEngine

Dispatch(action) ==
  /\ CanCall
  /\ dispatch(action, "dispatch", currentReducer)
  /\ folded' = IF DispatchCheck(action) = "ok" THEN FoldStep(folded, action)
                                               ELSE folded
  /\ UNCHANGED <<reducer0, created, currentReducer, currentState, listenerVars,
                 handles>>
  /\ UNCHANGED outsideEngine

\* currentState = currentReducer(currentState, action) and the snapshot
ReducerReturns ==
  /\ InReducer
  /\ result = NoResult
  /\ LET F == Top
         res == callReducer(F.reducer, currentState, F.action)
         listeners == snapshot(nextListeners, currentListeners)
     IN IF res.threw
          THEN /\ Unwind(ReducerError)
               /\ currentListeners' = listenersAfterThrow(nextListeners,
                                                          currentListeners)
               /\ UNCHANGED currentState
          ELSE /\ currentState' = res.value
               /\ isDispatching' = dispatchFinally(FALSE)
               /\ currentListeners' = listeners
               /\ stack' = [stack EXCEPT ![Len(stack)] =
                     [F EXCEPT !.pc = "notify", !.listeners = listeners,
                               !.i = 0, !.snap = heap[listeners],
                               !.active = ActiveHandles,
                               !.snapLen = Len(handles)]]
               /\ heap' = Collect(heap, Live(stack', nextListeners, listeners))
               /\ UNCHANGED <<result, folded>>
  /\ UNCHANGED <<reducer0, created, currentReducer, nextListeners, handles,
                 dispatches>>
  /\ UNCHANGED outsideEngine

\* an observable that calls observer.next without looking at next
hasNextAlways(obs) == TRUE

\* if (observer.next)
hasNext(obs) == obs.next

\* const listener = listeners[i]; listener()
listenerCall ==
  /\ stack # <<>>
  /\ Top.pc = "notify"
  /\ result = NoResult
  /\ Top.i < Len(heap[Top.listeners])
  /\ LET listener == heap[Top.listeners][Top.i + 1]
         seen == {<<listener, currentState>>}
     IN stack' = [k \in 1..Len(stack) |->
                    IF k = Len(stack)
                      THEN [stack[k] EXCEPT !.pc = "listener", !.i = @ + 1,
                                            !.calls = 0,
                                            !.log = Append(@, listener),
                                            !.inv = @ \cup seen]
                      ELSE [stack[k] EXCEPT !.inv = @ \cup seen]]
  /\ UNCHANGED <<reducer0, created, currentReducer, currentState, listenerVars,
                 isDispatching, handles, result, dispatches, folded>>

\* the listener is a callback of the code that uses the store
NotifyNext ==
  /\ listenerCall
  /\ heap[Top.listeners][Top.i + 1] # observeState
  /\ UNCHANGED outsideEngine

\* the listener is observeState: if (observer.next) observer.next(getState())
ObserverNext ==
  /\ listenerCall
  /\ heap[Top.listeners][Top.i + 1] = observeState
  /\ nexts' = IF hasNext(observer) THEN Append(nexts, currentState) ELSE nexts
  /\ UNCHANGED <<observer, outsideStore>>

ListenerReturns ==
  /\ InListener
  /\ result = NoResult
  /\ stack' = [stack EXCEPT ![Len(stack)].pc = "notify"]
  /\ UNCHANGED <<reducer0, created, currentReducer, currentState, listenerVars,
                 isDispatching, handles, result, dispatches, folded>>
  /\ UNCHANGED outsideEngine

\* a loop that catches what a listener throws and goes on
loopSwallows ==
  /\ stack' = [stack EXCEPT ![Len(stack)].pc = "notify"]
  /\ UNCHANGED <<isDispatching, result, heap, folded>>

\* listener() is called outside any try: its error leaves the loop and
\* dispatch
loopPropagates == Unwind(ListenerError)

ListenerThrows ==
  /\ InListener
  /\ result = NoResult
  /\ loopPropagates
  /\ UNCHANGED <<reducer0, created, currentReducer, currentState,
                 currentListeners, nextListeners, handles, dispatches>>
  /\ UNCHANGED outsideEngine

\* the loop is over: return action
DispatchReturns ==
  /\ stack # <<>>
  /\ Top.pc = "notify"
  /\ result = NoResult
  /\ Top.i >= Len(heap[Top.listeners])
  /\ LET F == Top
         rest == SubSeq(stack, 1, Len(stack) - 1)
     IN /\ stack' = rest
        /\ result' = Call(F.via, "ok",
                            IF F.via = "dispatch"
                              THEN dispatchReturnValue(F.action) ELSE NoAction,
                            Undefined)
        /\ created' = (created \/ F.via = "createStore")
        /\ heap' = Collect(heap, Live(rest, nextListeners, currentListeners))
  /\ UNCHANGED <<reducer0, currentReducer, currentState, currentListeners,
                 nextListeners, isDispatching, handles, dispatches, folded>>
  /\ UNCHANGED outsideEngine

\* the caller takes the value its call returned, or catches its error,
\* and goes on
Continue ==
  /\ result # NoResult
  /\ result' = NoResult
  /\ UNCHANGED <<reducer0, created, currentReducer, currentState, listenerVars,
                 isDispatching, handles, stack, dispatches, folded>>
  /\ UNCHANGED outsideEngine

\* the running callback lets the error of the call it made pass
Rethrow ==
  /\ stack # <<>>
  /\ result.status # "ok"
  /\ Unwind(result.status)
  /\ UNCHANGED <<reducer0, created, currentReducer, currentState,
                 currentListeners, nextListeners, handles, dispatches>>
  /\ UNCHANGED outsideEngine

(***************************************************************************)
(* getState, subscribe, unsubscribe and replaceReducer.                    *)
(***************************************************************************)
\* getState without its check
getStateUnchecked == "ok"

getStateCheck == IF isDispatching THEN InvariantViolation ELSE "ok"

GetState ==
  /\ CanCall
  /\ IF getStateCheck # "ok"
       THEN Fails("getState", getStateCheck)
       ELSE /\ result' = Call("getState", "ok", NoAction, currentState)
            /\ stack' = Bump(stack)
  /\ UNCHANGED <<reducer0, created, currentReducer, currentState, listenerVars,
                 isDispatching, handles, dispatches, folded>>
  /\ UNCHANGED outsideEngine

\* subscribe and unsubscribe that mutate the list in place
ensureWithoutCopy(nl, cl, h, live) == [next |-> nl, heap |-> h]

\* if (nextListeners === currentListeners) nextListeners = currentListeners.slice()
ensureCanMutateNextListeners(nl, cl, h, live) ==
  IF nl = cl
    THEN LET copy == Fresh(live) IN
         [next |-> copy, heap |-> [h EXCEPT ![copy] = h[cl]]]
    ELSE [next |-> nl, heap |-> h]

subscribeCheck(listener) ==
  IF listener = NotCallable THEN ConfigurationError
  ELSE IF isDispatching THEN InvariantViolation
  ELSE "ok"

\* subscribe, as op calls it
outerSubscribe(listener, limit, op) ==
  /\ CanCall
  /\ LET check == subscribeCheck(listener) IN
     IF check # "ok"
       THEN /\ Fails(op, check)
            /\ UNCHANGED <<listenerVars, handles>>
       ELSE /\ Len(handles) < limit
            /\ LET live == Live(stack, nextListeners, currentListeners)
                   m == ensureCanMutateNextListeners(nextListeners,
                                                     currentListeners, heap, live)
               IN /\ nextListeners' = m.next
                  /\ heap' = Collect([m.heap EXCEPT ![m.next] = Append(@, listener)],
                                     Live(stack, m.next, currentListeners))
            /\ handles' = Append(handles, [cb |-> listener, isSubscribed |-> TRUE,
                                           midPass |-> InListener])
            /\ result' = Call(op, "ok", NoAction, Undefined)
            /\ stack' = Bump(stack)
            /\ UNCHANGED currentListeners
  /\ UNCHANGED <<reducer0, created, currentReducer, currentState, isDispatching,
                 dispatches, folded>>

subscribe(listener, limit) ==
  /\ outerSubscribe(listener, limit, "subscribe")
  /\ UNCHANGED outsideEngine

Subscribe(listener) == subscribe(listener, MaxHandles)

\* store[$$observable]().subscribe(obs): the check, observeState(), and
\* outerSubscribe(observeState); one observer is subscribed at most
ObservableSubscribe(obs) ==
  /\ CanCall
  /\ \A h \in 1..Len(handles) : handles[h].cb # observeState
  /\ observer' = obs
  /\ IF TypeOf(obs) # "object" \/ obs.kind = "null"
       THEN /\ Fails("observable.subscribe", TypeError)
            /\ UNCHANGED <<reducer0, created, currentReducer, currentState,
                           listenerVars, isDispatching, handles, dispatches,
                           folded, nexts>>
       ELSE IF hasNext(obs) /\ getStateCheck # "ok"
         THEN /\ Fails("observable.subscribe", getStateCheck)
              /\ UNCHANGED <<reducer0, created, currentReducer, currentState,
                             listenerVars, isDispatching, handles, dispatches,
                             folded, nexts>>
         ELSE /\ outerSubscribe(observeState, MaxHandles, "observable.subscribe")
              /\ nexts' = IF hasNext(obs) THEN Append(nexts, currentState)
                                           ELSE nexts
  /\ UNCHANGED outsideStore

\* unsubscribe without the isSubscribed flag of its closure
unsubscribeWithoutFlag(h) ==
  IF isDispatching THEN InvariantViolation ELSE "ok"

\* unsubscribe without the check of isDispatching
unsubscribeUnguarded(h) == IF ~handles[h].isSubscribed THEN "noop" ELSE "ok"

\* "noop" when the closure has already unsubscribed
unsubscribeCheck(h) ==
  IF ~handles[h].isSubscribed THEN "noop"
  ELSE IF isDispatching THEN InvariantViolation
  ELSE "ok"

\* the closure subscribe returned as its h-th result
Unsubscribe(h) ==
  /\ CanCall
  /\ LET check == unsubscribeCheck(h)
         listener == handles[h].cb
     IN CASE check = "noop" ->
               /\ result' = Call("unsubscribe", "ok", NoAction, Undefined)
               /\ stack' = Bump(stack)
               /\ UNCHANGED <<listenerVars, handles>>
          [] check = InvariantViolation ->
               /\ Fails("unsubscribe", check)
               /\ UNCHANGED <<listenerVars, handles>>
          [] OTHER ->
               /\ handles' = [handles EXCEPT ![h].isSubscribed = FALSE]
               /\ LET live == Live(stack, nextListeners, currentListeners)
                      m == ensureCanMutateNextListeners(nextListeners,
                                                        currentListeners, heap, live)
                      index == IndexOf(m.heap[m.next], listener)
                  IN /\ nextListeners' = m.next
                     /\ currentListeners' = Null
                     /\ heap' = Collect([m.heap EXCEPT ![m.next] = Splice(@, index)],
                                        Live(stack, m.next, Null))
               /\ result' = Call("unsubscribe", "ok", NoAction, Undefined)
               /\ stack' = Bump(stack)
  /\ UNCHANGED <<reducer0, created, currentReducer, currentState, isDispatching,
                 dispatches, folded>>
  /\ UNCHANGED outsideEngine

\* a replaceReducer that keeps the reducer the store has
replaceReducerKeeps(current, nextReducer) == current

\* currentReducer = nextReducer
replaceReducerAssigns(current, nextReducer) == nextReducer

\* replaceReducer(nextReducer): the check, the assignment, dispatch(REPLACE)
ReplaceReducer(nextReducer) ==
  /\ CanCall
  /\ IF nextReducer = NotCallable
       THEN /\ Fails("replaceReducer", ConfigurationError)
            /\ UNCHANGED <<currentReducer, folded, isDispatching, dispatches>>
       ELSE /\ currentReducer' = replaceReducerAssigns(currentReducer, nextReducer)
            /\ folded' = Unfolded
            /\ dispatch(PlainAction(REPLACE, 0), "replaceReducer", currentReducer')
  /\ UNCHANGED <<reducer0, created, currentState, listenerVars, handles>>
  /\ UNCHANGED outsideEngine

(***************************************************************************)
(* The store and the code that uses it.                                    *)
(***************************************************************************)
Next ==
  \/ \E reducer \in Reducers, preloadedState \in PreloadedStates :
       createStore(reducer, preloadedState)
  \/ \E action \in Dispatchables : Dispatch(action)
  \/ ReducerReturns
  \/ NotifyNext
  \/ ListenerReturns
  \/ ListenerThrows
  \/ DispatchReturns
  \/ Continue
  \/ Rethrow
  \/ GetState
  \/ \E listener \in Callbacks \cup {NotCallable} : Subscribe(listener)
  \/ \E h \in 1..Len(handles) : Unsubscribe(h)

Spec == Init /\ [][Next]_vars

(***************************************************************************)
(* The store with callbacks that call nothing: every store call is made    *)
(* between dispatches, and more listeners are subscribed.                  *)
(***************************************************************************)
OuterDispatch(action) == AtTopLevel /\ Dispatch(action)

OuterSubscribe(listener) == AtTopLevel /\ subscribe(listener, MaxRegs)

OuterUnsubscribe(h) == AtTopLevel /\ Unsubscribe(h)

NextOuter ==
  \/ \E reducer \in Reducers, preloadedState \in PreloadedStates :
       createStore(reducer, preloadedState)
  \/ \E action \in Dispatchables : OuterDispatch(action)
  \/ ReducerReturns
  \/ NotifyNext
  \/ ListenerReturns
  \/ DispatchReturns
  \/ Continue
  \/ \E listener \in Callbacks \cup {NotCallable} : OuterSubscribe(listener)
  \/ \E h \in 1..Len(handles) : OuterUnsubscribe(h)

SpecOuter == Init /\ [][NextOuter]_vars

(***************************************************************************)
(* The store whose reducer is replaced: one listener at most, subscribed    *)
(* between dispatches; reducers and listeners call dispatch and            *)
(* replaceReducer.                                                          *)
(***************************************************************************)
ReplaceSubscribe(listener) == AtTopLevel /\ subscribe(listener, MaxReplaceSubs)

NextReplace ==
  \/ \E reducer \in Reducers, preloadedState \in PreloadedStates :
       createStore(reducer, preloadedState)
  \/ \E action \in GoodActions : Dispatch(action)
  \/ \E nextReducer \in Reducers \cup {NotCallable} : ReplaceReducer(nextReducer)
  \/ ReducerReturns
  \/ NotifyNext
  \/ ListenerReturns
  \/ DispatchReturns
  \/ Continue
  \/ Rethrow
  \/ \E listener \in Callbacks : ReplaceSubscribe(listener)

SpecReplace == Init /\ [][NextReplace]_vars

(***************************************************************************)
(* The store and an observer of its observable: listeners and the          *)
(* observer's next call the store, reducers call all of it but dispatch.   *)
(***************************************************************************)
ObserverActions == {PlainAction("inc", 1), PlainAction("boom", 1)}

ObserverDispatch(action) == ~InReducer /\ Dispatch(action)

NextObserver ==
  \/ \E reducer \in Reducers, preloadedState \in PreloadedStates :
       createStore(reducer, preloadedState)
  \/ \E action \in ObserverActions : ObserverDispatch(action)
  \/ ReducerReturns
  \/ NotifyNext
  \/ ObserverNext
  \/ ListenerReturns
  \/ DispatchReturns
  \/ Continue
  \/ Rethrow
  \/ \E listener \in {"f"} : Subscribe(listener)
  \/ \E h \in 1..Len(handles) : Unsubscribe(h)
  \/ \E obs \in Observers : ObservableSubscribe(obs)

SpecObserver == Init /\ [][NextObserver]_vars

(***************************************************************************)
(* A combined reducer and its callers.                                     *)
(***************************************************************************)
\* root = combineReducers(reducers)
CombineReducers(reducers) ==
  /\ ~root.built
  /\ LET c == combineReducers(reducers) IN
     /\ root' = IF c.thrown = NoError THEN [built |-> TRUE, c |-> c] ELSE root
     /\ ccall' = CCall("combineReducers", c, UndefinedState, NoAction,
                       [NoOutcome EXCEPT !.error = c.thrown])
  /\ UNCHANGED <<cstore, outsideCombined>>

\* root(state, action), once
Combination(state, action) ==
  /\ root.built
  /\ ccall.op = "combineReducers"
  /\ ccall' = CCall("combination", root.c, state, action,
                    combination(root.c, state, action))
  /\ UNCHANGED <<root, cstore, outsideCombined>>

NextCombination ==
  \/ \E reducers \in Mappings : CombineReducers(reducers)
  \/ \E state \in States, action \in CombinedActions : Combination(state, action)

SpecCombination == Init /\ [][NextCombination]_vars

(***************************************************************************)
(* A combined reducer invoked several times in a non-production build.     *)
(***************************************************************************)
\* the keys of the states given
InputKeys == {"a", "b", "c", "toString"}

\* the states given: plain objects, an instance of a class, a number and
\* undefined
InputStates ==
  {InputState("object", "Object.prototype", keys) : keys \in SUBSET InputKeys}
    \cup {InputState("object", "Foo.prototype", {"c"}),
          InputState("number", "null", {}),
          InputState("undefined", "null", {})}

\* the mappings given to combineReducers
WarningMappings == MappingsOf({"a", "b"} \X {"counter", NotCallable}, MaxKeys)

WarningActions ==
  {PlainAction(INIT, 0), PlainAction(REPLACE, 0), PlainAction("inc", 1),
   PlainAction("boom", 1)}

\* the keys of a state the key check of the current combined reducer looks
\* at and finds unexpected: those of a plain object no reducer is listed
\* for, when there is a reducer at all
Examined(inputState) ==
  IF root.c.finalReducers # <<>> /\ isPlainObject(inputState)
    THEN {key \in inputState.keys :
            \A i \in 1..Len(root.c.finalReducers) :
              root.c.finalReducers[i][1] # key}
    ELSE {}

\* root(state, action): the warning of lines 206-216, then the loop.  The
\* call records the keys earlier invocations examined (earlier) and those
\* examined up to this one (present).
WarnedCombination(state, action) ==
  /\ root.built
  /\ wcall.n < MaxInvocations
  /\ LET inputState == IF state.kind = "undefined" THEN DefaultState ELSE state
         w == getUnexpectedStateShapeWarningMessage(
                inputState, root.c.finalReducers, action, unexpectedKeyCache)
         out == combination(root.c,
                            Obj(1, [k \in inputState.keys |-> 0]), action)
     IN IF root.c.shapeAssertionError # NoError
          THEN /\ wcall' = [n |-> wcall.n + 1, state |-> inputState,
                            action |-> action, message |-> NoWarning,
                            earlier |-> wcall.present,
                            present |-> wcall.present,
                            error |-> root.c.shapeAssertionError]
               /\ UNCHANGED <<unexpectedKeyCache, warnings>>
          ELSE /\ unexpectedKeyCache' = w.cache
               /\ warnings' = IF w.message # NoWarning
                                THEN Append(warnings, w.message) ELSE warnings
               /\ wcall' = [n |-> wcall.n + 1, state |-> inputState,
                            action |-> action, message |-> w.message,
                            earlier |-> wcall.present,
                            present |-> wcall.present
                                          \cup Examined(inputState),
                            error |-> out.error]
  /\ UNCHANGED <<root, outsideWarnings>>

NextWarnings ==
  \/ \E reducers \in WarningMappings : CombineReducers(reducers)
  \/ \E state \in InputStates, action \in WarningActions :
       WarnedCombination(state, action)

SpecWarnings == Init /\ [][NextWarnings]_vars

(***************************************************************************)
(* A store created with a combined reducer.  Its reducers call nothing and *)
(* it has no listener: a store call is one step.                           *)
(***************************************************************************)
\* the mappings such a store is given
StoreKeys == {"a", "b"}

StoreEntries == StoreKeys \X {"counter", "forgetful", NotCallable}

StoreMappings == MappingsOf(StoreEntries, MaxKeys)

\* try { currentState = currentReducer(currentState, action) } finally ...
storeDispatch(st, action) ==
  LET out == combination(st.currentReducer, st.currentState, action) IN
  [store |-> IF out.error = NoError THEN [st EXCEPT !.currentState = out.value]
                                    ELSE st,
   out |-> out]

\* cstore = createStore(combineReducers(reducers), preloadedState)
CombinedCreateStore(reducers, preloadedState) ==
  /\ ~cstore.created
  /\ ccall = NoCall
  /\ LET c == combineReducers(reducers)
         st == [created |-> FALSE, currentReducer |-> c,
                currentState |-> preloadedState]
         d == storeDispatch(st, PlainAction(INIT, 0))
     IN /\ cstore' = IF d.out.error = NoError
                       THEN [d.store EXCEPT !.created = TRUE] ELSE cstore
        /\ ccall' = CCall("createStore", c, preloadedState,
                          PlainAction(INIT, 0), d.out)
  /\ UNCHANGED <<root, outsideCombined>>

\* cstore.dispatch(action)
CombinedDispatch(action) ==
  /\ cstore.created
  /\ LET d == storeDispatch(cstore, action) IN
     /\ cstore' = d.store
     /\ ccall' = CCall("dispatch", cstore.currentReducer, cstore.currentState,
                       action, d.out)
  /\ UNCHANGED <<root, outsideCombined>>

\* cstore.replaceReducer(combineReducers(reducers))
CombinedReplaceReducer(reducers) ==
  /\ cstore.created
  /\ LET c == combineReducers(reducers)
         d == storeDispatch([cstore EXCEPT !.currentReducer = c],
                            PlainAction(REPLACE, 0))
     IN /\ cstore' = d.store
        /\ ccall' = CCall("replaceReducer", cstore.currentReducer,
                          cstore.currentState, PlainAction(REPLACE, 0), d.out)
  /\ UNCHANGED <<root, outsideCombined>>

NextCombinedStore ==
  \/ \E reducers \in StoreMappings, preloadedState \in States :
       CombinedCreateStore(reducers, preloadedState)
  \/ \E action \in GoodActions : CombinedDispatch(action)
  \/ \E reducers \in StoreMappings : CombinedReplaceReducer(reducers)

SpecCombinedStore == Init /\ [][NextCombinedStore]_vars

(***************************************************************************)
(* A store enhanced with applyMiddleware.  Its reducer is counter and it   *)
(* has no listener: a call of its dispatch is one step.                    *)
(***************************************************************************)
\* mstore = createStore(counter, preloadedState, applyMiddleware(...middlewares))
ApplyMiddleware(middlewares, preloadedState) ==
  /\ mcall = NoMCall
  /\ LET st == applyMiddleware(middlewares, preloadedState) IN
     /\ mstore' = st
     /\ mcall' = MCall("applyMiddleware", NoAction, st.log, st.error)
  /\ UNCHANGED outsideMiddleware

\* a call begins: nothing logged, the store as it is
Begin ==
  [Run(<<>>, mstore.state, "ok") EXCEPT !.reducer = mstore.reducer,
                                        !.listeners = mstore.listeners]

\* mstore.dispatch(action)
MiddlewareDispatch(action) ==
  /\ mstore.built
  /\ LET r == Invoke(mstore.dispatch, action, Begin,
                     mstore.dispatch, mstore.middlewares)
     IN /\ mstore' = [mstore EXCEPT !.state = r.state]
        /\ mcall' = [MCall("dispatch", action, r.log, r.error)
                       EXCEPT !.before = mstore.state, !.seen = r.seen]
  /\ UNCHANGED outsideMiddleware

\* mstore.getState(): the getState of the underlying store
MiddlewareGetState ==
  /\ mstore.built
  /\ mstore.getState = BaseStore.getState
  /\ mcall' = [MCall("getState", NoAction, <<>>, "ok")
                 EXCEPT !.before = mstore.state, !.value = mstore.state]
  /\ UNCHANGED mstore
  /\ UNCHANGED outsideMiddleware

\* mstore.subscribe(listener): the subscribe of the underlying store
MiddlewareSubscribe(listener) ==
  /\ mstore.built
  /\ mstore.subscribe = BaseStore.subscribe
  /\ Len(mstore.listeners) < MaxSubscribers
  /\ mstore' = [mstore EXCEPT !.listeners = Append(@, listener)]
  /\ mcall' = [MCall("subscribe", NoAction, <<>>, "ok")
                 EXCEPT !.before = mstore.state]
  /\ UNCHANGED outsideMiddleware

\* mstore.replaceReducer(nextReducer): the replaceReducer of the
\* underlying store, which calls the dispatch of that store
MiddlewareReplaceReducer(nextReducer) ==
  /\ mstore.built
  /\ mstore.replaceReducer = BaseStore.replaceReducer
  /\ LET r == Invoke(innerDispatch(mstore.dispatch), PlainAction(REPLACE, 0),
                     [Begin EXCEPT !.reducer = nextReducer],
                     mstore.dispatch, mstore.middlewares)
     IN /\ mstore' = [mstore EXCEPT !.reducer = nextReducer, !.state = r.state]
        /\ mcall' = [MCall("replaceReducer", PlainAction(REPLACE, 0), r.log,
                           r.error)
                       EXCEPT !.before = mstore.state, !.seen = r.seen]
  /\ UNCHANGED outsideMiddleware

NextMiddleware ==
  \/ \E middlewares \in MiddlewareLists, preloadedState \in PreloadedStates :
       ApplyMiddleware(middlewares, preloadedState)
  \/ \E action \in MiddlewareActions : MiddlewareDispatch(action)

SpecMiddleware == Init /\ [][NextMiddleware]_vars

\* The enhanced store with listeners, with middlewares that call next
\* once, never or twice, and with the other functions of the store.
EnhancedLists ==
  UNION {[1..n -> {"pass", "drop", "twice"}] : n \in 0..MaxMiddlewares}

NextEnhanced ==
  \/ \E middlewares \in EnhancedLists, preloadedState \in PreloadedStates :
       ApplyMiddleware(middlewares, preloadedState)
  \/ \E action \in MiddlewareActions : MiddlewareDispatch(action)
  \/ MiddlewareGetState
  \/ \E listener \in Callbacks : MiddlewareSubscribe(listener)
  \/ \E nextReducer \in Reducers : MiddlewareReplaceReducer(nextReducer)

SpecEnhanced == Init /\ [][NextEnhanced]_vars

\* The enhanced store with middlewares that dispatch by themselves or end
\* the chain, and with replaceReducer.
ControlLists ==
  UNION {[1..n -> {"pass", "again", "drop"}] : n \in 0..MaxMiddlewares}

NextControl ==
  \/ \E middlewares \in ControlLists, preloadedState \in PreloadedStates :
       ApplyMiddleware(middlewares, preloadedState)
  \/ \E action \in MiddlewareActions : MiddlewareDispatch(action)
  \/ \E nextReducer \in Reducers : MiddlewareReplaceReducer(nextReducer)

SpecControl == Init /\ [][NextControl]_vars

(***************************************************************************)
(* compose and a call of the function it returns.                          *)
(***************************************************************************)
FuncLists == UNION {[1..n -> Prims] : n \in 0..MaxFuncs}

ArgLists == UNION {[1..n -> Numbers] : n \in 1..MaxArgs}

\* pipe.composed = compose(...funcs)
Compose(funcs) ==
  /\ pipe.op = "none"
  /\ pipe' = [pipe EXCEPT !.op = "compose", !.funcs = funcs,
                          !.composed = compose(funcs)]
  /\ UNCHANGED outsideCompose

\* pipe.composed(...args)
CallComposed(args) ==
  /\ pipe.op = "compose"
  /\ pipe' = [pipe EXCEPT !.op = "call", !.args = args,
                          !.out = callFn(pipe.composed,
                                         [args |-> args, calls |-> <<>>])]
  /\ UNCHANGED outsideCompose

NextCompose ==
  \/ \E funcs \in FuncLists : Compose(funcs)
  \/ \E args \in ArgLists : CallComposed(args)

SpecCompose == Init /\ [][NextCompose]_vars

(***************************************************************************)
(* A call of createStore with any arguments.                               *)
(***************************************************************************)
ReducerArgs == {ArgFunction("counter"), ArgNumber(1), ArgUndefined}

EnhancerArgs == {ArgFunction(fn) : fn \in Enhancers}

OtherArgs == {ArgUndefined, ArgNumber(1)}

\* construction.out = createStore(reducer, preloadedState, enhancer, arg3)
CreateStoreCall(reducer, preloadedState, enhancer, arg3) ==
  /\ construction.op = "none"
  /\ construction' =
       [op |-> "createStore", reducer |-> reducer,
        preloadedState |-> preloadedState, enhancer |-> enhancer,
        arg3 |-> arg3,
        out |-> createStoreCall(reducer, preloadedState, enhancer, arg3)]
  /\ UNCHANGED outsideArguments

NextArguments ==
  \E reducer \in ReducerArgs, preloadedState \in OtherArgs \cup EnhancerArgs,
     enhancer \in OtherArgs \cup EnhancerArgs,
     arg3 \in {ArgUndefined, ArgFunction("wrap")} :
    CreateStoreCall(reducer, preloadedState, enhancer, arg3)

SpecArguments == Init /\ [][NextArguments]_vars

(***************************************************************************)
(* isPlainObject, statement by statement.                                  *)
(***************************************************************************)
\* the values isPlainObject is given
PlainInputs ==
  {Value(kind, "null", UndefinedType, 1) :
     kind \in {"null", "undefined", "function", "string", "number"}}
  \cup {Value("object", proto, type, ref) :
          proto \in Prototypes \cup {"null"},
          type \in {UndefinedType, "inc", "dbl", "boom"}, ref \in 1..2}

\* Object.getPrototypeOf(proto), proto being the argument or a prototype
getPrototypeOf(obj, proto) == IF proto = Self THEN obj.proto ELSE protoOf[proto]

\* a last line that accepts every object that has a prototype
returnHasPrototype(obj, proto) == proto # Self

\* return Object.getPrototypeOf(obj) === proto
returnIsLast(obj, proto) == getPrototypeOf(obj, Self) = proto

\* if (typeof obj !== 'object' || obj === null) return false; let proto = obj
IsPlainObject(obj) ==
  /\ plain.pc \in {"idle", "done"}
  /\ plain' = IF TypeOf(obj) # "object" \/ obj.kind = "null"
                THEN [pc |-> "done", obj |-> obj, proto |-> Self, ret |-> FALSE]
                ELSE [pc |-> "loop", obj |-> obj, proto |-> Self, ret |-> FALSE]
  /\ UNCHANGED outsidePlain

\* while (Object.getPrototypeOf(proto) !== null) proto = Object.getPrototypeOf(proto)
PlainLoop ==
  /\ plain.pc = "loop"
  /\ getPrototypeOf(plain.obj, plain.proto) # "null"
  /\ plain' = [plain EXCEPT !.proto = getPrototypeOf(plain.obj, plain.proto)]
  /\ UNCHANGED outsidePlain

\* the loop ends: return Object.getPrototypeOf(obj) === proto
PlainReturn ==
  /\ plain.pc = "loop"
  /\ getPrototypeOf(plain.obj, plain.proto) = "null"
  /\ plain' = [plain EXCEPT !.pc = "done",
                            !.ret = returnIsLast(plain.obj, plain.proto)]
  /\ UNCHANGED outsidePlain

NextPlain ==
  \/ \E obj \in PlainInputs : IsPlainObject(obj)
  \/ PlainLoop
  \/ PlainReturn

\* a call that has begun runs on
SpecPlain == Init /\ [][NextPlain]_vars /\ WF_vars(PlainLoop \/ PlainReturn)

(***************************************************************************)
(* Properties of the store engine.                                         *)
(***************************************************************************)
Frames == {stack[k] : k \in 1..Len(stack)}

\* the notification loop of F is over and its dispatch is about to return
AboutToReturn(F) == F.pc = "notify" /\ F.i >= Len(heap[F.listeners])

\* the number of registrations of callback cb active at F's snapshot
Registered(F, cb) == Cardinality({h \in F.active : handles[h].cb = cb})

\* the callbacks of the registrations active at F's snapshot, in the order
\* of their subscribe calls
RECURSIVE ExpectedFrom(_, _)
ExpectedFrom(F, h) ==
  IF h > Len(handles) THEN <<>>
  ELSE (IF h \in F.active THEN <<handles[h].cb>> ELSE <<>>)
         \o ExpectedFrom(F, h + 1)

Expected(F) == ExpectedFrom(F, 1)

\* C1: outside a reducer the state of a store whose reducer has never
\* thrown and has never been replaced is the left fold of the reducer
\* createStore was given over INIT and the accepted actions, starting
\* from the preloaded state; and getState returns it.
C1_StateIsFold ==
  /\ (created /\ ~isDispatching /\ folded # Unfolded) => currentState = folded
  /\ (result.op = "getState" /\ result.status = "ok" /\ folded # Unfolded)
       => result.state = folded

\* two actions have been dispatched after INIT and getState returns the fold
C1_Witness ==
  /\ dispatches >= 3
  /\ stack = <<>>
  /\ folded # Unfolded
  /\ result.op = "getState"
  /\ result.state = folded

\* C2: a dispatch that returns has invoked, once each and in the order of
\* their subscribe calls, the callbacks of the registrations that were
\* active at its snapshot, also when a callback is registered twice.
C2_RegistrationOrder ==
  \A F \in Frames : AboutToReturn(F) => F.log = Expected(F)

\* C3: a registration made during a notification pass adds no invocation
\* to that pass, and a dispatch that took its snapshot while the
\* registration was active has invoked its callback when it returns.
C3_SubscribedInPass ==
  /\ \A F \in Frames : \A h \in 1..Len(handles) :
       (Notifying(F) /\ h > F.snapLen)
         => Count(F.log, handles[h].cb) <= Registered(F, handles[h].cb)
  /\ \A F \in Frames : \A h \in F.active :
       (AboutToReturn(F) /\ handles[h].midPass)
         => /\ Count(F.log, handles[h].cb) = Registered(F, handles[h].cb)
            /\ Count(F.log, handles[h].cb) >= 1

\* a listener has subscribed a callback that was not registered before and
\* has then dispatched: the nested dispatch, about to return, has invoked
\* the new callback, and the pass that is still under way has not
C3_Witness ==
  /\ Len(stack) = 2
  /\ AboutToReturn(Top)
  /\ stack[1].pc = "listener"
  /\ \E h \in Top.active :
       /\ handles[h].midPass
       /\ h > stack[1].snapLen
       /\ \A g \in 1..Len(handles) : g # h => handles[g].cb # handles[h].cb
       /\ Count(Top.log, handles[h].cb) = 1
       /\ Count(stack[1].log, handles[h].cb) = 0

\* C4: a registration that was active at a dispatch's snapshot and is
\* unsubscribed during the pass is still invoked by that pass, and a
\* registration unsubscribed before a dispatch's snapshot adds no
\* invocation to that dispatch.
C4_UnsubscribedInPass ==
  /\ \A F \in Frames : \A h \in F.active :
       (AboutToReturn(F) /\ ~handles[h].isSubscribed)
         => /\ Count(F.log, handles[h].cb) = Registered(F, handles[h].cb)
            /\ Count(F.log, handles[h].cb) >= 1
  /\ \A F \in Frames : \A h \in 1..Len(handles) :
       (Notifying(F) /\ h <= F.snapLen /\ h \notin F.active)
         => Count(F.log, handles[h].cb) <= Registered(F, handles[h].cb)

\* the second listener of the snapshot was unsubscribed by the first one
\* before its turn, and the pass is invoking it
C4_Witness ==
  /\ Len(stack) = 1
  /\ dispatches = 2
  /\ Top.pc = "listener"
  /\ Top.calls = 0
  /\ Top.i = 2
  /\ Top.active = {1, 2}
  /\ handles[1].cb # handles[2].cb
  /\ ~handles[2].isSubscribed
  /\ Top.log = <<handles[1].cb, handles[2].cb>>

C6_ReentrantCallsFail ==
  [][(/\ isDispatching
      /\ \/ GetState
         \/ \E listener \in Callbacks : Subscribe(listener)
         \/ \E action \in GoodActions : Dispatch(action))
       => /\ result'.status = InvariantViolation
          /\ UNCHANGED <<currentState, listenerVars, handles, isDispatching>>]_vars

\* a reducer has called dispatch and the call has failed
C6_Witness ==
  /\ isDispatching
  /\ result.op = "dispatch"
  /\ result.status = InvariantViolation

\* C7 as stated: while isDispatching is true every call of an unsubscribe
\* closure fails with InvariantViolation and leaves the lists unchanged.
C7_UnsubscribeFails ==
  [][\A h \in 1..Len(handles) :
       (isDispatching /\ Unsubscribe(h))
         => /\ result'.status = InvariantViolation
            /\ UNCHANGED <<listenerVars, handles>>]_vars

\* C7 as amended: the call fails with InvariantViolation when the closure
\* has not unsubscribed yet, and returns normally when it has; in both
\* cases the listener lists are unchanged.
C7_SubscribedUnsubscribeFails ==
  [][\A h \in 1..Len(handles) :
       (isDispatching /\ Unsubscribe(h))
         => /\ handles[h].isSubscribed => result'.status = InvariantViolation
            /\ ~handles[h].isSubscribed => result'.status = "ok"
            /\ UNCHANGED <<listenerVars, handles>>]_vars

\* a reducer has called the closure of an active registration
C7_Witness ==
  /\ isDispatching
  /\ result.op = "unsubscribe"
  /\ result.status = InvariantViolation
  /\ ActiveHandles # {}

\* C8: isDispatching is true exactly while a reducer is executing; it is
\* false after construction, between store calls, during the notification
\* pass and after a dispatch whose reducer threw.
C8_FlagIffReducerRuns ==
  /\ isDispatching <=> InReducer
  /\ (result.status = ReducerError) => ~isDispatching

\* the reducer of a dispatch made between store calls has thrown
C8_Witness ==
  /\ result.op = "dispatch"
  /\ result.status = ReducerError
  /\ stack = <<>>
  /\ ~isDispatching

\* C9: dispatch of a value that is not a plain object, or whose type is
\* undefined, fails with ConfigurationError: no reducer runs, the state is
\* unchanged and no listener is notified.
C9_BadActionRejected ==
  [][\A action \in BadActions :
       Dispatch(action)
         => /\ result'.status = ConfigurationError
            /\ stack' = Bump(stack)
            /\ UNCHANGED <<currentState, listenerVars, isDispatching,
                           dispatches, folded>>]_vars

\* a listener has dispatched a bad value
C9_Witness ==
  /\ InListener
  /\ result.op = "dispatch"
  /\ result.status = ConfigurationError

\* C10: a dispatch call that returns gives back the action it was given.
C10_ReturnsAction ==
  [][/\ \A action \in Dispatchables :
          (Dispatch(action) /\ Len(stack') > Len(stack))
            => stack'[Len(stack')].action = action
     /\ (DispatchReturns /\ Top.via = "dispatch")
          => /\ result'.status = "ok"
             /\ result'.ret = Top.action]_vars

\* a dispatch that changed the state and notified a listener has returned
C10_Witness ==
  /\ result.op = "dispatch"
  /\ result.status = "ok"
  /\ result.ret = PlainAction("inc", 1)
  /\ currentState # 0
  /\ ActiveHandles # {}

\* C11: replaceReducer with a callable argument, called outside a reducer,
\* installs the argument and dispatches REPLACE to it: the state becomes
\* the new reducer's result for (previous state, REPLACE), the pass invokes
\* every listener of its snapshot once, and every later dispatch runs the
\* installed reducer; the reducer changes in no other way.  With a
\* non-callable argument the call fails with ConfigurationError and leaves
\* the reducer and the state unchanged.
C11_ReplaceInstalls ==
  [][/\ \A r \in Reducers :
          (ReplaceReducer(r) /\ ~isDispatching)
            => /\ currentReducer' = r
               /\ Len(stack') = Len(stack) + 1
               /\ stack'[Len(stack')].reducer = r
               /\ stack'[Len(stack')].action = PlainAction(REPLACE, 0)
               /\ currentState' = currentState
     /\ \A action \in GoodActions :
          (Dispatch(action) /\ Len(stack') > Len(stack))
            => stack'[Len(stack')].reducer = currentReducer
     /\ (ReducerReturns /\ Len(stack') = Len(stack))
          => currentState' = Reducer(Top.reducer, currentState, Top.action).value
     /\ (DispatchReturns /\ Top.via = "replaceReducer")
          => /\ result'.status = "ok"
             /\ Top.log = Top.snap
     /\ ReplaceReducer(NotCallable)
          => /\ result'.status = ConfigurationError
             /\ UNCHANGED <<currentReducer, currentState>>
     /\ (created /\ currentReducer' # currentReducer)
          => \E r \in Reducers : ReplaceReducer(r)]_vars

\* replaceReducer has returned after its pass notified a listener, and a
\* later dispatch is running the installed reducer on an action for which
\* the reducer given to createStore computes another state
C11_Witness ==
  /\ Len(stack) = 1
  /\ Top.pc = "reducer"
  /\ Top.via = "dispatch"
  /\ handles # <<>>
  /\ currentReducer # reducer0
  /\ Top.reducer = currentReducer
  /\ ~Reducer(currentReducer, currentState, Top.action).threw
  /\ Reducer(currentReducer, currentState, Top.action)
       # Reducer(reducer0, currentState, Top.action)

(***************************************************************************)
(* Properties of combined reducers.                                        *)
(***************************************************************************)
\* the keys of the closure c whose values are functions
ValidKeys(c) == {c.finalReducers[i][1] : i \in 1..Len(c.finalReducers)}

\* finalReducers[key]
ReducerAt(c, key) ==
  LET i == CHOOSE j \in 1..Len(c.finalReducers) : c.finalReducers[j][1] = key
  IN c.finalReducers[i][2]

\* the call reducer(state, action) returns undefined
ReturnsUndefined(r, state, action) ==
  LET res == SubReducer(r, state, action) IN ~res.threw /\ res.value = Undefined

\* the state a sub-reducer starts from
InitialState(r) == SubReducer(r, Undefined, PlainAction(INIT, 0)).value

\* C12: after replaceReducer has installed combineReducers(M2) in a store
\* whose reducer was combineReducers(M1), every key of both mappings has
\* the value it had before, and every key of M2 alone has the initial
\* state of its sub-reducer (the sub-reducers used here ignore REPLACE).
C12_ReplaceKeepsOverlap ==
  (ccall.op = "replaceReducer" /\ ccall.error = NoError)
    => \A k \in ValidKeys(cstore.currentReducer) :
         IF k \in ValidKeys(ccall.before)
           THEN Get(cstore.currentState, k) = Get(ccall.state, k)
           ELSE Get(cstore.currentState, k)
                  = InitialState(ReducerAt(cstore.currentReducer, k))

\* the object the loop of the latest call read: state, or the default {}
Given == IF ccall.state = UndefinedState THEN Obj(FreshRef({}), NoProps)
                                        ELSE ccall.state

\* one call per entry of finalReducers, in order, each with the slice of the
\* state given and with the action given
ExpectedCalls(c, state, action) ==
  [i \in 1..Len(c.finalReducers) |->
     <<c.finalReducers[i][1], c.finalReducers[i][2],
       Get(state, c.finalReducers[i][1]), action>>]

\* the result of the i-th call made
ResultOf(i) == SubReducer(ccall.calls[i][2], ccall.calls[i][3], ccall.calls[i][4])

\* the latest call was a call of the combined reducer that returned
Returns == ccall.op = "combination" /\ ccall.error = NoError

\* C13 as stated: every invocation of a combined reducer calls each
\* sub-reducer of finalReducers once, in key order, with the slice of the
\* state passed in and the action passed in.
C13_EachCalledOnce ==
  ccall.op = "combination"
    => ccall.calls = ExpectedCalls(ccall.before, Given, ccall.action)

\* C13 as amended: an invocation that returns has made exactly these
\* calls, and a new object it returns holds at each key the result of that
\* key's call; an invocation that throws has made the first of these calls
\* only, up to the call that failed, and none when it throws the deferred
\* shape error.
C13_ReturningCallsEachOnce ==
  LET expected == ExpectedCalls(ccall.before, Given, ccall.action) IN
  /\ Returns
       => /\ ccall.calls = expected
          /\ ccall.value.ref # Given.ref
               => \A i \in 1..Len(expected) :
                    ccall.value.val[expected[i][1]] = ResultOf(i).value
  /\ (ccall.op = "combination" /\ ccall.error # NoError)
       => /\ Len(ccall.calls) <= Len(expected)
          /\ ccall.calls = SubSeq(expected, 1, Len(ccall.calls))
          /\ ccall.error.name = ShapeError => ccall.calls = <<>>

\* a combined reducer of the keys b and a, in this order, has returned a
\* new object after both sub-reducers changed their slice
C13_Witness ==
  /\ Returns
  /\ Len(ccall.calls) = 2
  /\ ccall.calls[1][1] = "b"
  /\ ccall.calls[2][1] = "a"
  /\ ccall.state # UndefinedState
  /\ \A i \in 1..2 : /\ ccall.calls[i][3] # Undefined
                      /\ ResultOf(i).value # ccall.calls[i][3]
  /\ ccall.value.ref # ccall.state.ref

\* C14: a combined reducer returns the state object it was given when
\* every sub-reducer returned its previous slice, and a newly built object
\* holding the results when some sub-reducer returned another value.
C14_SameReferenceIffUnchanged ==
  Returns
    => LET unchanged == \A i \in 1..Len(ccall.calls) :
                          ResultOf(i).value = ccall.calls[i][3]
       IN /\ unchanged => ccall.value = Given
          /\ ~unchanged
               => /\ ccall.value.ref # Given.ref
                  /\ DOMAIN ccall.value.val = ValidKeys(ccall.before)
                  /\ \A i \in 1..Len(ccall.calls) :
                       ccall.value.val[ccall.calls[i][1]] = ResultOf(i).value

\* two sub-reducers were called with slices of the caller's object, both
\* returned their slice, and the caller's object came back
C14_Witness ==
  /\ Returns
  /\ Len(ccall.calls) = 2
  /\ ccall.state # UndefinedState
  /\ \A i \in 1..2 : ccall.calls[i][3] # Undefined
  /\ ccall.value = ccall.state

\* the sub-reducers of c that return undefined for (undefined, INIT) or
\* for (undefined, probe action)
Misshapen(c) ==
  {i \in 1..Len(c.finalReducers) :
     \/ ReturnsUndefined(c.finalReducers[i][2], Undefined, PlainAction(INIT, 0))
     \/ ReturnsUndefined(c.finalReducers[i][2], Undefined,
                         PlainAction(PROBE_UNKNOWN_ACTION, 0))}

C17_KeysAreValidKeys ==
  Returns => DOMAIN ccall.value.val = ValidKeys(ccall.before)

\* the sub-reducers of the store's reducer that return undefined for the
\* action of the latest dispatch
Forgetting ==
  LET fr == ccall.before.finalReducers IN
  {i \in 1..Len(fr) :
     ReturnsUndefined(fr[i][2], Get(ccall.state, fr[i][1]), ccall.action)}

\* C15: a dispatch during which a sub-reducer returns undefined fails with
\* the StateError that names the first such key in key order, and leaves
\* the state and the reducer of the store as they were.
C15_StateErrorNamesKey ==
  (ccall.op = "dispatch" /\ Forgetting # {})
    => LET i == CHOOSE j \in Forgetting : \A k \in Forgetting : j <= k IN
       /\ ccall.error = Error(StateError, ccall.before.finalReducers[i][1])
       /\ cstore.currentState = ccall.state
       /\ cstore.currentReducer = ccall.before

\* both sub-reducers of a store with the keys b and a, in this order,
\* return undefined for the action dispatched, and the error names b
C15_Witness ==
  /\ ccall.op = "dispatch"
  /\ Len(ccall.before.finalReducers) = 2
  /\ ccall.before.finalReducers[1][1] = "b"
  /\ Forgetting = {1, 2}
  /\ ccall.error = Error(StateError, "b")
  /\ cstore.currentState = ccall.state
  /\ DOMAIN cstore.currentState.val = {"a", "b"}

(***************************************************************************)
(* Properties of applyMiddleware.                                          *)
(***************************************************************************)
\* the handlers from the i-th middleware on, each holding the next one, the
\* last one holding store.dispatch
RECURSIVE Pipeline(_, _)
Pipeline(i, n) ==
  IF i > n THEN StoreDispatch ELSE Handler(i, Pipeline(i + 1, n))

\* the log of an action that goes through every handler and the store
Traverse(n, action) ==
  [j \in 1..(n + 1) |-> Entry(IF j <= n THEN j ELSE 0, action)]

\* no handler of the store does anything but log and call next on the action
PassThrough(action) ==
  \A i \in 1..Len(mstore.middlewares) :
    ~(mstore.middlewares[i] = "again" /\ action.type = "ping")

C20_SetupDispatchFails ==
  mcall.op = "applyMiddleware" =>
    /\ \A k \in 1..Len(mstore.made) :
         mstore.made[k].error = ConfigurationError
    /\ mcall.log = <<>>
    /\ mstore.state =
         Reducer("counter", mstore.preloadedState, PlainAction(INIT, 0)).value
    /\ (\E i \in 1..Len(mstore.middlewares) : mstore.middlewares[i] = "eager")
         => (~mstore.built /\ mcall.error = ConfigurationError)

C20_Witness ==
  /\ mcall.op = "applyMiddleware"
  /\ Len(mstore.middlewares) = 3
  /\ mstore.middlewares[2] = "eagerCaught"
  /\ mstore.middlewares[3] = "eager"
  /\ Len(mstore.made) = 2
  /\ mstore.preloadedState # Undefined

(***************************************************************************)
(* More properties of the store engine.                                    *)
(***************************************************************************)
\* the number of subscribed handles of callback cb
Subscribed(cb) == Cardinality({h \in ActiveHandles : handles[h].cb = cb})

\* C27: every handle stands for one entry of the listener list until its
\* first effective call and for none afterwards: the list a later
\* dispatch notifies holds each callback as many times as it has
\* subscribed handles, and a dispatch's snapshot holds it as many times as
\* handles were subscribed at the snapshot, whatever calls of used handles
\* were made and however many handles share the callback.
C27_OneRegistrationPerHandle ==
  /\ created =>
       \A cb \in Callbacks : Count(heap[nextListeners], cb) = Subscribed(cb)
  /\ \A F \in Frames : \A cb \in Callbacks :
       Notifying(F) => Count(F.snap, cb) = Registered(F, cb)

\* a used handle has just been called again while two other handles of
\* the same callback are still subscribed
C27_Witness ==
  /\ result.op = "unsubscribe"
  /\ result.status = "ok"
  /\ \E h \in 1..Len(handles) :
       /\ ~handles[h].isSubscribed
       /\ Subscribed(handles[h].cb) = 2
       /\ Count(heap[nextListeners], handles[h].cb) = 2

\* C30: the array a dispatch in progress iterates to notify is as long
\* and holds the same callbacks as when the dispatch took it, whatever
\* subscribe and unsubscribe calls and nested dispatches its listeners
\* have made, and the array subscribe and unsubscribe have modified since
\* is another one.
C30_IteratedArrayUntouched ==
  \A F \in Frames :
    Notifying(F) =>
      /\ heap[F.listeners] = F.snap
      /\ (ActiveHandles # F.active \/ Len(handles) # F.snapLen)
           => nextListeners # F.listeners

\* two dispatches are iterating, the inner one an array the outer one's
\* listener has subscribed into, and the inner one's listener has
\* unsubscribed a handle since
C30_Witness ==
  /\ Len(stack) = 2
  /\ stack[1].pc = "listener"
  /\ stack[2].pc = "listener"
  /\ stack[1].listeners # stack[2].listeners
  /\ nextListeners # stack[2].listeners
  /\ Len(stack[2].snap) > Len(stack[1].snap)
  /\ heap[nextListeners] # stack[2].snap

(***************************************************************************)
(* Properties of isPlainObject.                                            *)
(***************************************************************************)
\* the number of non-null objects on the prototype chain of an object
\* whose immediate prototype is p
RECURSIVE ChainLength(_)
ChainLength(p) == IF p = "null" THEN 0 ELSE 1 + ChainLength(protoOf[p])

\* C29: every call of isPlainObject returns, and it returns true exactly
\* for a non-null object with one non-null object on its prototype chain
\* (its immediate prototype is then the last one): false for null, for
\* what is no object, for an object whose prototype is null and for an
\* object with two or more prototypes.  The function the store's dispatch
\* uses gives the same answer.
C29_PlainIffOnePrototype ==
  /\ [](plain.pc = "done" =>
         /\ plain.ret = (/\ plain.obj.kind = "object"
                         /\ ChainLength(plain.obj.proto) = 1)
         /\ plain.ret = isPlainObject(plain.obj))
  /\ (plain.pc = "loop" ~> plain.pc = "done")

\* an instance of a class that extends another class has been refused
\* after the loop climbed its three prototypes
C29_Witness ==
  /\ plain.pc = "done"
  /\ plain.obj.kind = "object"
  /\ plain.obj.proto = "Bar.prototype"
  /\ plain.proto = "Object.prototype"
  /\ ~plain.ret

(***************************************************************************)
(* Properties of compose.                                                  *)
(***************************************************************************)
\* funcs[i](funcs[i+1](... funcs[n](...args)))
RECURSIVE Nested(_, _, _)
Nested(funcs, i, args) ==
  IF i = Len(funcs) THEN PrimValue(funcs[i], args)
  ELSE PrimValue(funcs[i], <<Nested(funcs, i + 1, args)>>)

\* the calls of funcs[n], ..., funcs[1], each with what its right
\* neighbour returned, the first one with args
RightToLeft(funcs, args) ==
  LET n == Len(funcs) IN
  [k \in 1..n |->
     <<funcs[n - k + 1],
       IF k = 1 THEN args ELSE <<Nested(funcs, n - k + 2, args)>> >>]

RECURSIVE Innermost(_)
Innermost(f) == IF f.fn = "handler" THEN Innermost(f.next) ELSE f

EventsOf(log, ev) == {k \in 1..Len(log) : log[k].ev = ev}

\* C24: createStore(reducer, preloadedState, enhancer) with a function for
\* enhancer first calls the enhancer with (reducer, preloadedState),
\* returns what that call returns and constructs no store but those the
\* enhancer asks for; createStore(reducer, f) with a function f and no
\* third argument calls f as the enhancer with (reducer, undefined).
C24_DelegatesToEnhancer ==
  LET c == construction IN
  /\ (/\ c.op = "createStore"
      /\ c.enhancer.t = "function"
      /\ c.preloadedState.t # "function"
      /\ c.arg3.t # "function")
       => /\ c.out = callEnhancer(c.enhancer, c.reducer, c.preloadedState)
          /\ c.out.log[1] =
               Event("enhancer", c.enhancer.fn, c.reducer, c.preloadedState)
          /\ EventsOf(c.out.log, "enhancer") = {1}
          /\ c.enhancer.fn = "stub" => EventsOf(c.out.log, "createStore") = {}
  /\ (/\ c.op = "createStore"
      /\ c.preloadedState.t = "function"
      /\ c.enhancer.t = "undefined"
      /\ c.arg3.t = "undefined")
       => /\ c.out = callEnhancer(c.preloadedState, c.reducer, ArgUndefined)
          /\ c.out.log[1] =
               Event("enhancer", c.preloadedState.fn, c.reducer, ArgUndefined)
          /\ \A k \in 1..Len(c.out.log) :
               c.out.log[k].preloadedState = ArgUndefined

\* createStore(counter, wrap) has returned the store wrap made with an
\* undefined state
C24_Witness ==
  /\ construction.op = "createStore"
  /\ construction.reducer = ArgFunction("counter")
  /\ construction.preloadedState = ArgFunction("wrap")
  /\ construction.enhancer = ArgUndefined
  /\ construction.arg3 = ArgUndefined
  /\ construction.out.status = "ok"
  /\ construction.out.store = Store(ArgFunction("counter"), ArgUndefined, <<"wrap">>)

\* the functions among the second, third and fourth argument
CallableArgs(c) ==
  Cardinality({a \in {"preloadedState", "enhancer", "arg3"} : c[a].t = "function"})

\* C25: a call of createStore with more than one function among its
\* second, third and fourth argument fails with ConfigurationError and has
\* called no enhancer and no reducer.
C25_SeveralEnhancersRefused ==
  (construction.op = "createStore" /\ CallableArgs(construction) > 1) =>
    /\ construction.out.status = ConfigurationError
    /\ construction.out.log = <<>>

\* the enhancer a call of createStore uses, if any
EnhancerInEffect(c) ==
  IF c.enhancer.t = "function" THEN c.enhancer
  ELSE IF c.preloadedState.t = "function" /\ c.enhancer.t = "undefined"
    THEN c.preloadedState
  ELSE ArgUndefined

\* C26 as stated: a call of createStore with a reducer that is no function
\* fails with ConfigurationError and produces no store.
C26_ReducerAlwaysChecked ==
  (construction.op = "createStore" /\ construction.reducer.t # "function") =>
    /\ construction.out.status = ConfigurationError
    /\ construction.out.store = NoStoreMade

\* C26 as amended: such a call fails with ConfigurationError, before
\* anything is called, when no enhancer is in effect; with an enhancer it
\* fails with ConfigurationError when the enhancer calls createStore with
\* that reducer, and no createStore call ever constructs a store with it.
C26_ReducerCheckedAtConstruction ==
  LET c == construction IN
  (c.op = "createStore" /\ c.reducer.t # "function") =>
    /\ EnhancerInEffect(c).t # "function"
         => /\ c.out.status = ConfigurationError
            /\ c.out.store = NoStoreMade
            /\ c.out.log = <<>>
    /\ EnhancerInEffect(c).fn = "wrap"
         => /\ c.out.status = ConfigurationError
            /\ c.out.store = NoStoreMade
    /\ \A k \in EventsOf(c.out.log, "createStore") :
         c.out.log[k].reducer.t = "function"

\* an enhancer was handed a number for the reducer, called createStore
\* with it, and the call failed
C26_Witness ==
  /\ construction.op = "createStore"
  /\ construction.reducer = ArgNumber(1)
  /\ construction.enhancer = ArgFunction("wrap")
  /\ construction.out.status = ConfigurationError
  /\ Len(construction.out.log) = 1

(***************************************************************************)
(* Properties of the store applyMiddleware returns.                        *)
(***************************************************************************)
\* how many times one dispatch reaches store.dispatch through the
\* middlewares from the i-th on: "drop" never calls next, "twice" calls it
\* two times, the others once
RECURSIVE Reaches(_, _)
Reaches(middlewares, i) ==
  IF i > Len(middlewares) THEN 1
  ELSE (CASE middlewares[i] = "drop" -> 0
          [] middlewares[i] = "twice" -> 2
          [] OTHER -> 1) * Reaches(middlewares, i + 1)

\* the state after the reducer was applied k times to an action
RECURSIVE AppliedTimes(_, _, _, _)
AppliedTimes(reducer, state, action, k) ==
  IF k = 0 THEN state
  ELSE Reducer(reducer, AppliedTimes(reducer, state, action, k - 1), action).value

\* C21: the store applyMiddleware returns has the getState, subscribe and
\* replaceReducer of the underlying store, and one dispatch through
\* middlewares that reach store.dispatch k times in all applies the
\* reducer k times and makes k notification passes, each over every
\* listener and with the state after that application: with k = 0 the
\* state is unchanged and no listener is invoked.  replaceReducer sends
\* its action to store.dispatch directly.
C21_OncePerInnermostNext ==
  mstore.built =>
    /\ mstore.getState = BaseStore.getState
    /\ mstore.subscribe = BaseStore.subscribe
    /\ mstore.replaceReducer = BaseStore.replaceReducer
    /\ mcall.op = "dispatch" =>
         LET k == Reaches(mstore.middlewares, 1)
             n == Len(mstore.listeners)
         IN /\ mcall.error = "ok"
            /\ Cardinality({j \in 1..Len(mcall.log) : mcall.log[j][1] = 0}) = k
            /\ mstore.state =
                 AppliedTimes(mstore.reducer, mcall.before, mcall.action, k)
            /\ Len(mcall.seen) = k * n
            /\ \A j \in 1..k : \A l \in 1..n :
                 mcall.seen[(j - 1) * n + l] =
                   <<mstore.listeners[l],
                     AppliedTimes(mstore.reducer, mcall.before, mcall.action, j)>>
    /\ mcall.op = "getState" => mcall.value = mstore.state
    /\ mcall.op = "replaceReducer" =>
         /\ mcall.log = <<Entry(0, mcall.action)>>
         /\ Len(mcall.seen) = Len(mstore.listeners)

\* one dispatch of "inc" through two middlewares that call next twice has
\* applied the replaced reducer and notified the two listeners four times
C21_Witness ==
  /\ mstore.built
  /\ mstore.middlewares = <<"twice", "pass", "twice">>
  /\ mstore.reducer = "stepper"
  /\ Len(mstore.listeners) = 2
  /\ mcall.op = "dispatch"
  /\ mcall.action.type = "inc"
  /\ Len(mcall.seen) = 8
  /\ mstore.state # mcall.before

(***************************************************************************)
(* Properties of the observable.                                           *)
(***************************************************************************)
\* the handle of the listener observeState, when it is registered
AdapterHandles == {h \in 1..Len(handles) : handles[h].cb = observeState}

\* the step is a call of the observable's subscribe that returns
SubscribesObserver ==
  /\ result = NoResult
  /\ result'.op = "observable.subscribe"
  /\ result'.status = "ok"

\* a call of the observable's subscribe registers observeState and, when
\* the observer has next, calls it with the current state
ImmediateNext ==
  SubscribesObserver =>
    /\ Len(handles') = Len(handles) + 1
    /\ handles'[Len(handles')].cb = observeState
    /\ handles'[Len(handles')].isSubscribed
    /\ nexts' = IF observer'.next THEN Append(nexts, currentState) ELSE nexts

\* a dispatch that returns has called observeState once when it took its
\* snapshot while observeState was registered, and never otherwise
OncePerPass ==
  \A F \in Frames :
    AboutToReturn(F) =>
      Count(F.log, observeState) =
        (IF AdapterHandles \cap F.active # {} THEN 1 ELSE 0)

\* what is no object, and null, is refused with TypeError: nothing is
\* registered and next is not called
BadObserverRefused ==
  (/\ result.op = "observable.subscribe"
   /\ (TypeOf(observer) # "object" \/ observer.kind = "null"))
    => /\ result.status = TypeError
       /\ AdapterHandles = {}
       /\ nexts = <<>>

ThreeComposed == pipe.op = "call" /\ Len(pipe.funcs) = 3

UnexpectedKeys ==
  {key \in wcall.state.keys :
     \A i \in 1..Len(root.c.finalReducers) : root.c.finalReducers[i][1] # key}

\* the keys the warnings before the latest invocation named
WarnedEarlier ==
  LET n == IF wcall.message = NoWarning THEN Len(warnings)
                                        ELSE Len(warnings) - 1
  IN UNION {warnings[i].keys : i \in 1..n}

\* the keys the unexpected-key warning of the latest invocation named
WarnedNow ==
  IF wcall.message.name = "UnexpectedKeys" THEN wcall.message.keys ELSE {}

\* no key is named by two warnings
AtMostOncePerKey ==
  \A i, j \in 1..Len(warnings) :
    i # j => warnings[i].keys \cap warnings[j].keys = {}

\* an invocation throws exactly when a reducer it calls throws
NeverThrowsForKeys ==
  wcall.n > 0 =>
    (wcall.error # NoError <=>
       wcall.action.type = "boom" /\ root.c.finalReducers # <<>>)

\* an invocation whose action is REPLACE warns of no key
SilentOnReplace ==
  (wcall.n > 0 /\ wcall.action.type = REPLACE) =>
    wcall.message.name # "UnexpectedKeys"

ListOf(ref, h) == IF ref = Null THEN <<>> ELSE h[ref]

\* the step changes neither the state nor the listener lists
StoreUntouched ==
  /\ currentState' = currentState
  /\ currentListeners' = currentListeners
  /\ nextListeners' = nextListeners
  /\ ListOf(currentListeners, heap') = ListOf(currentListeners, heap)
  /\ ListOf(nextListeners, heap') = ListOf(nextListeners, heap)
  /\ handles' = handles

\* the step ends the dispatch on top of the stack while its reducer runs
ReducerThrew == InReducer /\ Len(stack') < Len(stack)

\* C33: from the call of dispatch(action) until its reducer has thrown, no
\* step changes the state or the listener lists; the error goes to the
\* caller of dispatch, and the call has invoked no listener.
C33_ReducerThrowLeavesStore ==
  [][/\ (Len(stack') = Len(stack) + 1 /\ Top'.via = "dispatch")
          => StoreUntouched
     /\ (InReducer /\ (Len(stack') # Len(stack) \/ Top'.pc = "reducer"))
          => StoreUntouched
     /\ ReducerThrew
          => /\ result'.op = Top.via
             /\ result'.status # "ok"
             /\ stack' = SubSeq(stack, 1, Len(stack) - 1)
             /\ Top.log = <<>>
             /\ Top.inv = {}
             /\ Top.i = 0]_vars

\* dispatch has failed with the reducer's error in a store that holds a
\* state other than the initial one, a registered listener and a list
\* changed since the last snapshot
C33_Witness ==
  /\ result = Call("dispatch", ReducerError, NoAction, Undefined)
  /\ stack = <<>>
  /\ currentState = 1
  /\ ActiveHandles # {}
  /\ currentListeners # nextListeners
  /\ currentListeners # Null


\* ---------------------------------------------------------------------
\* replaceReducer called by a running reducer

\* the step is a call of replaceReducer, made while a reducer runs, whose
\* dispatch of REPLACE is refused
ReplaceRefusedInReducer ==
  /\ InReducer
  /\ result = NoResult
  /\ result' = Call("replaceReducer", InvariantViolation, NoAction, Undefined)

\* C34: a replaceReducer call that fails with InvariantViolation because a
\* reducer is running leaves the current reducer as it was, so that later
\* dispatches compute the state with it.
C34_FailedReplaceKeepsReducer ==
  [][ReplaceRefusedInReducer => currentReducer' = currentReducer]_vars


\* ---------------------------------------------------------------------
\* the control actions of a store built with applyMiddleware

\* C35: the INIT of the construction and the REPLACE of replaceReducer go
\* to the dispatch of the underlying store alone, no handler of a
\* middleware runs but in a call of the exposed dispatch, and every action
\* a handler gets is the action of that call or one a middleware gave to
\* middlewareAPI.dispatch.
C35_ControlActionsBypass ==
  /\ mstore.built => mstore.construction = <<Entry(0, PlainAction(INIT, 0))>>
  /\ (mcall.op = "replaceReducer" /\ mcall.error = "ok")
       => mcall.log = <<Entry(0, PlainAction(REPLACE, 0))>>
  /\ \A k \in 1..Len(mcall.log) :
       mcall.log[k][1] # 0 =>
         /\ mcall.op = "dispatch"
         /\ mcall.log[k][2] \in {mcall.action, Again}
         /\ mcall.log[k][2].type \notin {INIT, REPLACE}

\* replaceReducer(stepper) has returned in a store with three middlewares,
\* one of which dispatches by itself, after dispatches brought the state
\* to 2
C35_Witness ==
  /\ mcall.op = "replaceReducer"
  /\ mcall.error = "ok"
  /\ mstore.middlewares = <<"pass", "again", "pass">>
  /\ mstore.reducer = "stepper"
  /\ mcall.before = 2
  /\ mstore.state = 2


\* ---------------------------------------------------------------------
\* a listener that throws

\* the step ends the dispatch on top of the stack while a listener of its
\* pass runs
ListenerThrew == InListener /\ Len(stack') < Len(stack)

\* the step is the snapshot of a dispatch
TakesSnapshot == InReducer /\ Len(stack') = Len(stack) /\ Top'.pc = "notify"

\* C36: an error a listener throws, or lets pass, during a notification
\* pass leaves dispatch for its caller; the state stays the one the
\* reducer computed, isDispatching is false, the listener lists are as
\* they were, and the pass has invoked the listeners of its snapshot up to
\* the throwing one and no other.  Every dispatch, also one that follows,
\* takes a snapshot with one entry for each active registration and, when
\* it returns, has invoked all of it.
C36_ListenerThrowEndsPass ==
  /\ [][/\ ListenerThrows => ListenerThrew
        /\ ListenerThrew =>
             /\ result'.op = Top.via
             /\ result'.status # "ok"
             /\ Len(stack') = Len(stack) - 1
             /\ StoreUntouched
             /\ folded' # Unfolded => currentState' = folded'
             /\ ~isDispatching'
             /\ Top.i >= 1
             /\ Top.log = SubSeq(Top.snap, 1, Top.i)
        /\ TakesSnapshot =>
             \A cb \in Callbacks :
               Count(Top'.snap, cb) =
                 Cardinality({h \in ActiveHandles : handles[h].cb = cb})]_vars
  /\ [](\A F \in Frames : AboutToReturn(F) => F.log = F.snap)

\* the second dispatch has failed with the error of a listener, the store
\* holds the state its reducer computed, and two registrations are active
C36_Witness ==
  /\ result = Call("dispatch", ListenerError, NoAction, Undefined)
  /\ stack = <<>>
  /\ dispatches = 2
  /\ folded = 1
  /\ currentState = 1
  /\ ~isDispatching
  /\ Cardinality(ActiveHandles) = 2

====
